---- MODULE Spec2Model ----
(***************************************************************************)
(* A model of the APK upload / analyze service of src/app.py.              *)
(*                                                                         *)
(* Text (file names, paths, permission identifiers) is a sequence of       *)
(* one-character strings, so that the sanitiser, the path join and the     *)
(* substring rules are computed character by character as the code does.   *)
(* The host is POSIX: os.sep is "/", os.path.altsep is None.               *)
(***************************************************************************)
EXTENDS Integers, Sequences, FiniteSets, TLC

\* ------------------------------------------------------------------ bounds
\* Number of request slots (one request per slot).
NumReq == 3
\* Slots that may run concurrently in Spec.
NumConc == 2
\* Number of full chunks in the body of an upload of Spec.
MaxChunks == 1
\* Longest stem of the exhaustively enumerated client names (NameSpec).
MaxStem == 3
\* Longest permission list the inspector returns in RulesSpec.
MaxPerms == 3

Req == 1..NumReq

\* ------------------------------------------------------------ text helpers
RECURSIVE Concat(_)
Concat(ss) == IF ss = <<>> THEN <<>> ELSE Head(ss) \o Concat(Tail(ss))

\* needle in hay (Python's `in` on str)
Contains(hay, needle) ==
    \E i \in 1..(Len(hay) - Len(needle) + 1) :
        SubSeq(hay, i, i + Len(needle) - 1) = needle

\* str.endswith
EndsWith(s, suffix) ==
    /\ Len(s) >= Len(suffix)
    /\ SubSeq(s, Len(s) - Len(suffix) + 1, Len(s)) = suffix

\* All sequences over S of length at most n.
SeqsUpTo(S, n) == UNION { [1..k -> S] : k \in 0..n }

\* --------------------------------------------- werkzeug's secure_filename
\* A character is a one-character string if it is a printable ASCII
\* character other than the grave accent, "\t", "\n", "\f" or "\r", and
\* the token "U+xxxx" of its code point (upper-case hexadecimal, at least
\* four digits) otherwise; the grave accent is "U+0060".
Ascii ==
    {" ", "!", "\"", "#", "$", "%", "&", "'", "(", ")", "*", "+", ",", "-", ".", "/", "0", "1",
     "2", "3", "4", "5", "6", "7", "8", "9", ":", ";", "<", "=", ">", "?", "@", "A", "B", "C",
     "D", "E", "F", "G", "H", "I", "J", "K", "L", "M", "N", "O", "P", "Q", "R", "S", "T", "U",
     "V", "W", "X", "Y", "Z", "[", "\\", "]", "^", "_", "U+0060", "a", "b", "c", "d", "e", "f", "g",
     "h", "i", "j", "k", "l", "m", "n", "o", "p", "q", "r", "s", "t", "u", "v", "w", "x", "y",
     "z", "{", "|", "}", "~",
     "U+0000", "U+0001", "U+0002", "U+0003", "U+0004", "U+0005", "U+0006", "U+0007", "U+0008",
     "\t", "\n", "U+000B", "\f", "\r", "U+000E", "U+000F", "U+0010", "U+0011", "U+0012",
     "U+0013", "U+0014", "U+0015", "U+0016", "U+0017", "U+0018", "U+0019", "U+001A", "U+001B",
     "U+001C", "U+001D", "U+001E", "U+001F", "U+007F"}

\* unicodedata.normalize("NFKD", c).encode("ascii", "ignore") for the
\* non-ASCII characters of which it leaves something: each ASCII remainder
\* with the characters that have it (Unicode 14: the base letter of an
\* accented letter, the letters of a ligature, the ASCII twin of a
\* fullwidth, small, enclosed or mathematical form, the space of a wide
\* space). Of every other non-ASCII character nothing is left.
NfkdClasses ==
    { <<<<" ">>,
        {"U+00A0", "U+00A8", "U+00AF", "U+00B4", "U+00B8", "U+02D8", "U+02D9", "U+02DA",
         "U+02DB", "U+02DC", "U+02DD", "U+037A", "U+0384", "U+0385", "U+1FBD", "U+1FBF",
         "U+1FC0", "U+1FC1", "U+1FCD", "U+1FCE", "U+1FCF", "U+1FDD", "U+1FDE", "U+1FDF",
         "U+1FED", "U+1FEE", "U+1FFD", "U+1FFE", "U+2000", "U+2001", "U+2002", "U+2003",
         "U+2004", "U+2005", "U+2006", "U+2007", "U+2008", "U+2009", "U+200A", "U+2017",
         "U+202F", "U+203E", "U+205F", "U+3000", "U+309B", "U+309C", "U+FC5E", "U+FC5F",
         "U+FC60", "U+FC61", "U+FC62", "U+FC63", "U+FDFB", "U+FE49", "U+FE4A", "U+FE4B",
         "U+FE4C", "U+FE70", "U+FE72", "U+FE74", "U+FE76", "U+FE78", "U+FE7A", "U+FE7C",
         "U+FE7E", "U+FFE3"}>>,
      <<<<" ", " ", " ">>,
        {"U+FDFA"}>>,
      <<<<"!">>,
        {"U+FE15", "U+FE57", "U+FF01"}>>,
      <<<<"!", "!">>,
        {"U+203C"}>>,
      <<<<"!", "?">>,
        {"U+2049"}>>,
      <<<<"\"">>,
        {"U+FF02"}>>,
      <<<<"#">>,
        {"U+FE5F", "U+FF03"}>>,
      <<<<"$">>,
        {"U+FE69", "U+FF04"}>>,
      <<<<"%">>,
        {"U+FE6A", "U+FF05"}>>,
      <<<<"&">>,
        {"U+FE60", "U+FF06"}>>,
      <<<<"'">>,
        {"U+FF07"}>>,
      <<<<"(">>,
        {"U+207D", "U+208D", "U+FE35", "U+FE59", "U+FF08"}>>,
      <<<<"(", ")">>,
        {"U+3200", "U+3201", "U+3202", "U+3203", "U+3204", "U+3205", "U+3206", "U+3207",
         "U+3208", "U+3209", "U+320A", "U+320B", "U+320C", "U+320D", "U+320E", "U+320F",
         "U+3210", "U+3211", "U+3212", "U+3213", "U+3214", "U+3215", "U+3216", "U+3217",
         "U+3218", "U+3219", "U+321A", "U+321B", "U+321C", "U+321D", "U+321E", "U+3220",
         "U+3221", "U+3222", "U+3223", "U+3224", "U+3225", "U+3226", "U+3227", "U+3228",
         "U+3229", "U+322A", "U+322B", "U+322C", "U+322D", "U+322E", "U+322F", "U+3230",
         "U+3231", "U+3232", "U+3233", "U+3234", "U+3235", "U+3236", "U+3237", "U+3238",
         "U+3239", "U+323A", "U+323B", "U+323C", "U+323D", "U+323E", "U+323F", "U+3240",
         "U+3241", "U+3242", "U+3243"}>>,
      <<<<"(", "1", ")">>,
        {"U+2474"}>>,
      <<<<"(", "1", "0", ")">>,
        {"U+247D"}>>,
      <<<<"(", "1", "1", ")">>,
        {"U+247E"}>>,
      <<<<"(", "1", "2", ")">>,
        {"U+247F"}>>,
      <<<<"(", "1", "3", ")">>,
        {"U+2480"}>>,
      <<<<"(", "1", "4", ")">>,
        {"U+2481"}>>,
      <<<<"(", "1", "5", ")">>,
        {"U+2482"}>>,
      <<<<"(", "1", "6", ")">>,
        {"U+2483"}>>,
      <<<<"(", "1", "7", ")">>,
        {"U+2484"}>>,
      <<<<"(", "1", "8", ")">>,
        {"U+2485"}>>,
      <<<<"(", "1", "9", ")">>,
        {"U+2486"}>>,
      <<<<"(", "2", ")">>,
        {"U+2475"}>>,
      <<<<"(", "2", "0", ")">>,
        {"U+2487"}>>,
      <<<<"(", "3", ")">>,
        {"U+2476"}>>,
      <<<<"(", "4", ")">>,
        {"U+2477"}>>,
      <<<<"(", "5", ")">>,
        {"U+2478"}>>,
      <<<<"(", "6", ")">>,
        {"U+2479"}>>,
      <<<<"(", "7", ")">>,
        {"U+247A"}>>,
      <<<<"(", "8", ")">>,
        {"U+247B"}>>,
      <<<<"(", "9", ")">>,
        {"U+247C"}>>,
      <<<<"(", "A", ")">>,
        {"U+1F110"}>>,
      <<<<"(", "B", ")">>,
        {"U+1F111"}>>,
      <<<<"(", "C", ")">>,
        {"U+1F112"}>>,
      <<<<"(", "D", ")">>,
        {"U+1F113"}>>,
      <<<<"(", "E", ")">>,
        {"U+1F114"}>>,
      <<<<"(", "F", ")">>,
        {"U+1F115"}>>,
      <<<<"(", "G", ")">>,
        {"U+1F116"}>>,
      <<<<"(", "H", ")">>,
        {"U+1F117"}>>,
      <<<<"(", "I", ")">>,
        {"U+1F118"}>>,
      <<<<"(", "J", ")">>,
        {"U+1F119"}>>,
      <<<<"(", "K", ")">>,
        {"U+1F11A"}>>,
      <<<<"(", "L", ")">>,
        {"U+1F11B"}>>,
      <<<<"(", "M", ")">>,
        {"U+1F11C"}>>,
      <<<<"(", "N", ")">>,
        {"U+1F11D"}>>,
      <<<<"(", "O", ")">>,
        {"U+1F11E"}>>,
      <<<<"(", "P", ")">>,
        {"U+1F11F"}>>,
      <<<<"(", "Q", ")">>,
        {"U+1F120"}>>,
      <<<<"(", "R", ")">>,
        {"U+1F121"}>>,
      <<<<"(", "S", ")">>,
        {"U+1F122"}>>,
      <<<<"(", "T", ")">>,
        {"U+1F123"}>>,
      <<<<"(", "U", ")">>,
        {"U+1F124"}>>,
      <<<<"(", "V", ")">>,
        {"U+1F125"}>>,
      <<<<"(", "W", ")">>,
        {"U+1F126"}>>,
      <<<<"(", "X", ")">>,
        {"U+1F127"}>>,
      <<<<"(", "Y", ")">>,
        {"U+1F128"}>>,
      <<<<"(", "Z", ")">>,
        {"U+1F129"}>>,
      <<<<"(", "a", ")">>,
        {"U+249C"}>>,
      <<<<"(", "b", ")">>,
        {"U+249D"}>>,
      <<<<"(", "c", ")">>,
        {"U+249E"}>>,
      <<<<"(", "d", ")">>,
        {"U+249F"}>>,
      <<<<"(", "e", ")">>,
        {"U+24A0"}>>,
      <<<<"(", "f", ")">>,
        {"U+24A1"}>>,
      <<<<"(", "g", ")">>,
        {"U+24A2"}>>,
      <<<<"(", "h", ")">>,
        {"U+24A3"}>>,
      <<<<"(", "i", ")">>,
        {"U+24A4"}>>,
      <<<<"(", "j", ")">>,
        {"U+24A5"}>>,
      <<<<"(", "k", ")">>,
        {"U+24A6"}>>,
      <<<<"(", "l", ")">>,
        {"U+24A7"}>>,
      <<<<"(", "m", ")">>,
        {"U+24A8"}>>,
      <<<<"(", "n", ")">>,
        {"U+24A9"}>>,
      <<<<"(", "o", ")">>,
        {"U+24AA"}>>,
      <<<<"(", "p", ")">>,
        {"U+24AB"}>>,
      <<<<"(", "q", ")">>,
        {"U+24AC"}>>,
      <<<<"(", "r", ")">>,
        {"U+24AD"}>>,
      <<<<"(", "s", ")">>,
        {"U+24AE"}>>,
      <<<<"(", "t", ")">>,
        {"U+24AF"}>>,
      <<<<"(", "u", ")">>,
        {"U+24B0"}>>,
      <<<<"(", "v", ")">>,
        {"U+24B1"}>>,
      <<<<"(", "w", ")">>,
        {"U+24B2"}>>,
      <<<<"(", "x", ")">>,
        {"U+24B3"}>>,
      <<<<"(", "y", ")">>,
        {"U+24B4"}>>,
      <<<<"(", "z", ")">>,
        {"U+24B5"}>>,
      <<<<")">>,
        {"U+207E", "U+208E", "U+FE36", "U+FE5A", "U+FF09"}>>,
      <<<<"*">>,
        {"U+FE61", "U+FF0A"}>>,
      <<<<"+">>,
        {"U+207A", "U+208A", "U+FB29", "U+FE62", "U+FF0B"}>>,
      <<<<",">>,
        {"U+FE10", "U+FE50", "U+FF0C"}>>,
      <<<<"-">>,
        {"U+FE63", "U+FF0D"}>>,
      <<<<".">>,
        {"U+2024", "U+FE52", "U+FF0E"}>>,
      <<<<".", ".">>,
        {"U+2025", "U+FE30"}>>,
      <<<<".", ".", ".">>,
        {"U+2026", "U+FE19"}>>,
      <<<<"/">>,
        {"U+FF0F"}>>,
      <<<<"0">>,
        {"U+2070", "U+2080", "U+24EA", "U+3358", "U+FF10", "U+1D7CE", "U+1D7D8", "U+1D7E2",
         "U+1D7EC", "U+1D7F6", "U+1FBF0"}>>,
      <<<<"0", ",">>,
        {"U+1F101"}>>,
      <<<<"0", ".">>,
        {"U+1F100"}>>,
      <<<<"0", "3">>,
        {"U+2189"}>>,
      <<<<"1">>,
        {"U+00B9", "U+2081", "U+215F", "U+2460", "U+32C0", "U+3359", "U+33E0", "U+FF11",
         "U+1D7CF", "U+1D7D9", "U+1D7E3", "U+1D7ED", "U+1D7F7", "U+1FBF1"}>>,
      <<<<"1", ",">>,
        {"U+1F102"}>>,
      <<<<"1", ".">>,
        {"U+2488"}>>,
      <<<<"1", "0">>,
        {"U+2469", "U+32C9", "U+3362", "U+33E9"}>>,
      <<<<"1", "0", ".">>,
        {"U+2491"}>>,
      <<<<"1", "1">>,
        {"U+246A", "U+32CA", "U+3363", "U+33EA"}>>,
      <<<<"1", "1", ".">>,
        {"U+2492"}>>,
      <<<<"1", "1", "0">>,
        {"U+2152"}>>,
      <<<<"1", "2">>,
        {"U+00BD", "U+246B", "U+32CB", "U+3364", "U+33EB"}>>,
      <<<<"1", "2", ".">>,
        {"U+2493"}>>,
      <<<<"1", "3">>,
        {"U+2153", "U+246C", "U+3365", "U+33EC"}>>,
      <<<<"1", "3", ".">>,
        {"U+2494"}>>,
      <<<<"1", "4">>,
        {"U+00BC", "U+246D", "U+3366", "U+33ED"}>>,
      <<<<"1", "4", ".">>,
        {"U+2495"}>>,
      <<<<"1", "5">>,
        {"U+2155", "U+246E", "U+3367", "U+33EE"}>>,
      <<<<"1", "5", ".">>,
        {"U+2496"}>>,
      <<<<"1", "6">>,
        {"U+2159", "U+246F", "U+3368", "U+33EF"}>>,
      <<<<"1", "6", ".">>,
        {"U+2497"}>>,
      <<<<"1", "7">>,
        {"U+2150", "U+2470", "U+3369", "U+33F0"}>>,
      <<<<"1", "7", ".">>,
        {"U+2498"}>>,
      <<<<"1", "8">>,
        {"U+215B", "U+2471", "U+336A", "U+33F1"}>>,
      <<<<"1", "8", ".">>,
        {"U+2499"}>>,
      <<<<"1", "9">>,
        {"U+2151", "U+2472", "U+336B", "U+33F2"}>>,
      <<<<"1", "9", ".">>,
        {"U+249A"}>>,
      <<<<"2">>,
        {"U+00B2", "U+2082", "U+2461", "U+32C1", "U+335A", "U+33E1", "U+FF12", "U+1D7D0",
         "U+1D7DA", "U+1D7E4", "U+1D7EE", "U+1D7F8", "U+1FBF2"}>>,
      <<<<"2", ",">>,
        {"U+1F103"}>>,
      <<<<"2", ".">>,
        {"U+2489"}>>,
      <<<<"2", "0">>,
        {"U+2473", "U+336C", "U+33F3"}>>,
      <<<<"2", "0", ".">>,
        {"U+249B"}>>,
      <<<<"2", "1">>,
        {"U+3251", "U+336D", "U+33F4"}>>,
      <<<<"2", "2">>,
        {"U+3252", "U+336E", "U+33F5"}>>,
      <<<<"2", "3">>,
        {"U+2154", "U+3253", "U+336F", "U+33F6"}>>,
      <<<<"2", "4">>,
        {"U+3254", "U+3370", "U+33F7"}>>,
      <<<<"2", "5">>,
        {"U+2156", "U+3255", "U+33F8"}>>,
      <<<<"2", "6">>,
        {"U+3256", "U+33F9"}>>,
      <<<<"2", "7">>,
        {"U+3257", "U+33FA"}>>,
      <<<<"2", "8">>,
        {"U+3258", "U+33FB"}>>,
      <<<<"2", "9">>,
        {"U+3259", "U+33FC"}>>,
      <<<<"3">>,
        {"U+00B3", "U+2083", "U+2462", "U+32C2", "U+335B", "U+33E2", "U+FF13", "U+1D7D1",
         "U+1D7DB", "U+1D7E5", "U+1D7EF", "U+1D7F9", "U+1FBF3"}>>,
      <<<<"3", ",">>,
        {"U+1F104"}>>,
      <<<<"3", ".">>,
        {"U+248A"}>>,
      <<<<"3", "0">>,
        {"U+325A", "U+33FD"}>>,
      <<<<"3", "1">>,
        {"U+325B", "U+33FE"}>>,
      <<<<"3", "2">>,
        {"U+325C"}>>,
      <<<<"3", "3">>,
        {"U+325D"}>>,
      <<<<"3", "4">>,
        {"U+00BE", "U+325E"}>>,
      <<<<"3", "5">>,
        {"U+2157", "U+325F"}>>,
      <<<<"3", "6">>,
        {"U+32B1"}>>,
      <<<<"3", "7">>,
        {"U+32B2"}>>,
      <<<<"3", "8">>,
        {"U+215C", "U+32B3"}>>,
      <<<<"3", "9">>,
        {"U+32B4"}>>,
      <<<<"4">>,
        {"U+2074", "U+2084", "U+2463", "U+32C3", "U+335C", "U+33E3", "U+FF14", "U+1D7D2",
         "U+1D7DC", "U+1D7E6", "U+1D7F0", "U+1D7FA", "U+1FBF4"}>>,
      <<<<"4", ",">>,
        {"U+1F105"}>>,
      <<<<"4", ".">>,
        {"U+248B"}>>,
      <<<<"4", "0">>,
        {"U+32B5"}>>,
      <<<<"4", "1">>,
        {"U+32B6"}>>,
      <<<<"4", "2">>,
        {"U+32B7"}>>,
      <<<<"4", "3">>,
        {"U+32B8"}>>,
      <<<<"4", "4">>,
        {"U+32B9"}>>,
      <<<<"4", "5">>,
        {"U+2158", "U+32BA"}>>,
      <<<<"4", "6">>,
        {"U+32BB"}>>,
      <<<<"4", "7">>,
        {"U+32BC"}>>,
      <<<<"4", "8">>,
        {"U+32BD"}>>,
      <<<<"4", "9">>,
        {"U+32BE"}>>,
      <<<<"5">>,
        {"U+2075", "U+2085", "U+2464", "U+32C4", "U+335D", "U+33E4", "U+FF15", "U+1D7D3",
         "U+1D7DD", "U+1D7E7", "U+1D7F1", "U+1D7FB", "U+1FBF5"}>>,
      <<<<"5", ",">>,
        {"U+1F106"}>>,
      <<<<"5", ".">>,
        {"U+248C"}>>,
      <<<<"5", "0">>,
        {"U+32BF"}>>,
      <<<<"5", "6">>,
        {"U+215A"}>>,
      <<<<"5", "8">>,
        {"U+215D"}>>,
      <<<<"6">>,
        {"U+2076", "U+2086", "U+2465", "U+32C5", "U+335E", "U+33E5", "U+FF16", "U+1D7D4",
         "U+1D7DE", "U+1D7E8", "U+1D7F2", "U+1D7FC", "U+1FBF6"}>>,
      <<<<"6", ",">>,
        {"U+1F107"}>>,
      <<<<"6", ".">>,
        {"U+248D"}>>,
      <<<<"7">>,
        {"U+2077", "U+2087", "U+2466", "U+32C6", "U+335F", "U+33E6", "U+FF17", "U+1D7D5",
         "U+1D7DF", "U+1D7E9", "U+1D7F3", "U+1D7FD", "U+1FBF7"}>>,
      <<<<"7", ",">>,
        {"U+1F108"}>>,
      <<<<"7", ".">>,
        {"U+248E"}>>,
      <<<<"7", "8">>,
        {"U+215E"}>>,
      <<<<"8">>,
        {"U+2078", "U+2088", "U+2467", "U+32C7", "U+3360", "U+33E7", "U+FF18", "U+1D7D6",
         "U+1D7E0", "U+1D7EA", "U+1D7F4", "U+1D7FE", "U+1FBF8"}>>,
      <<<<"8", ",">>,
        {"U+1F109"}>>,
      <<<<"8", ".">>,
        {"U+248F"}>>,
      <<<<"9">>,
        {"U+2079", "U+2089", "U+2468", "U+32C8", "U+3361", "U+33E8", "U+FF19", "U+1D7D7",
         "U+1D7E1", "U+1D7EB", "U+1D7F5", "U+1D7FF", "U+1FBF9"}>>,
      <<<<"9", ",">>,
        {"U+1F10A"}>>,
      <<<<"9", ".">>,
        {"U+2490"}>>,
      <<<<":">>,
        {"U+FE13", "U+FE55", "U+FF1A"}>>,
      <<<<":", ":", "=">>,
        {"U+2A74"}>>,
      <<<<";">>,
        {"U+037E", "U+FE14", "U+FE54", "U+FF1B"}>>,
      <<<<"<">>,
        {"U+226E", "U+FE64", "U+FF1C"}>>,
      <<<<"=">>,
        {"U+207C", "U+208C", "U+2260", "U+FE66", "U+FF1D"}>>,
      <<<<"=", "=">>,
        {"U+2A75"}>>,
      <<<<"=", "=", "=">>,
        {"U+2A76"}>>,
      <<<<">">>,
        {"U+226F", "U+FE65", "U+FF1E"}>>,
      <<<<"?">>,
        {"U+FE16", "U+FE56", "U+FF1F"}>>,
      <<<<"?", "!">>,
        {"U+2048"}>>,
      <<<<"?", "?">>,
        {"U+2047"}>>,
      <<<<"@">>,
        {"U+FE6B", "U+FF20"}>>,
      <<<<"A">>,
        {"U+00C0", "U+00C1", "U+00C2", "U+00C3", "U+00C4", "U+00C5", "U+0100", "U+0102",
         "U+0104", "U+01CD", "U+01DE", "U+01E0", "U+01FA", "U+0200", "U+0202", "U+0226",
         "U+1D2C", "U+1E00", "U+1EA0", "U+1EA2", "U+1EA4", "U+1EA6", "U+1EA8", "U+1EAA",
         "U+1EAC", "U+1EAE", "U+1EB0", "U+1EB2", "U+1EB4", "U+1EB6", "U+212B", "U+24B6",
         "U+3382", "U+FF21", "U+1D400", "U+1D434", "U+1D468", "U+1D49C", "U+1D4D0", "U+1D504",
         "U+1D538", "U+1D56C", "U+1D5A0", "U+1D5D4", "U+1D608", "U+1D63C", "U+1D670", "U+1F130"}>>,
      <<<<"A", "U">>,
        {"U+3373"}>>,
      <<<<"A", "m">>,
        {"U+33DF"}>>,
      <<<<"B">>,
        {"U+1D2E", "U+1E02", "U+1E04", "U+1E06", "U+212C", "U+24B7", "U+FF22", "U+1D401",
         "U+1D435", "U+1D469", "U+1D4D1", "U+1D505", "U+1D539", "U+1D56D", "U+1D5A1",
         "U+1D5D5", "U+1D609", "U+1D63D", "U+1D671", "U+1F131"}>>,
      <<<<"B", "q">>,
        {"U+33C3"}>>,
      <<<<"C">>,
        {"U+00C7", "U+0106", "U+0108", "U+010A", "U+010C", "U+1E08", "U+2102", "U+2103",
         "U+212D", "U+216D", "U+24B8", "U+A7F2", "U+FF23", "U+1D402", "U+1D436", "U+1D46A",
         "U+1D49E", "U+1D4D2", "U+1D56E", "U+1D5A2", "U+1D5D6", "U+1D60A", "U+1D63E",
         "U+1D672", "U+1F12B", "U+1F132"}>>,
      <<<<"C", "D">>,
        {"U+1F12D"}>>,
      <<<<"C", "k", "g">>,
        {"U+33C6"}>>,
      <<<<"C", "o", ".">>,
        {"U+33C7"}>>,
      <<<<"D">>,
        {"U+010E", "U+1D30", "U+1E0A", "U+1E0C", "U+1E0E", "U+1E10", "U+1E12", "U+2145",
         "U+216E", "U+24B9", "U+FF24", "U+1D403", "U+1D437", "U+1D46B", "U+1D49F", "U+1D4D3",
         "U+1D507", "U+1D53B", "U+1D56F", "U+1D5A3", "U+1D5D7", "U+1D60B", "U+1D63F",
         "U+1D673", "U+1F133"}>>,
      <<<<"D", "J">>,
        {"U+1F190"}>>,
      <<<<"D", "Z">>,
        {"U+01C4", "U+01F1"}>>,
      <<<<"D", "z">>,
        {"U+01C5", "U+01F2"}>>,
      <<<<"E">>,
        {"U+00C8", "U+00C9", "U+00CA", "U+00CB", "U+0112", "U+0114", "U+0116", "U+0118",
         "U+011A", "U+0204", "U+0206", "U+0228", "U+1D31", "U+1E14", "U+1E16", "U+1E18",
         "U+1E1A", "U+1E1C", "U+1EB8", "U+1EBA", "U+1EBC", "U+1EBE", "U+1EC0", "U+1EC2",
         "U+1EC4", "U+1EC6", "U+2130", "U+24BA", "U+FF25", "U+1D404", "U+1D438", "U+1D46C",
         "U+1D4D4", "U+1D508", "U+1D53C", "U+1D570", "U+1D5A4", "U+1D5D8", "U+1D60C",
         "U+1D640", "U+1D674", "U+1F134"}>>,
      <<<<"F">>,
        {"U+1E1E", "U+2109", "U+2131", "U+24BB", "U+338C", "U+A7F3", "U+FF26", "U+1D405",
         "U+1D439", "U+1D46D", "U+1D4D5", "U+1D509", "U+1D53D", "U+1D571", "U+1D5A5",
         "U+1D5D9", "U+1D60D", "U+1D641", "U+1D675", "U+1F135"}>>,
      <<<<"F", "A", "X">>,
        {"U+213B"}>>,
      <<<<"G">>,
        {"U+011C", "U+011E", "U+0120", "U+0122", "U+01E6", "U+01F4", "U+1D33", "U+1E20",
         "U+24BC", "U+FF27", "U+1D406", "U+1D43A", "U+1D46E", "U+1D4A2", "U+1D4D6", "U+1D50A",
         "U+1D53E", "U+1D572", "U+1D5A6", "U+1D5DA", "U+1D60E", "U+1D642", "U+1D676", "U+1F136"}>>,
      <<<<"G", "B">>,
        {"U+3387"}>>,
      <<<<"G", "H", "z">>,
        {"U+3393"}>>,
      <<<<"G", "P", "a">>,
        {"U+33AC"}>>,
      <<<<"G", "y">>,
        {"U+33C9"}>>,
      <<<<"H">>,
        {"U+0124", "U+021E", "U+1D34", "U+1E22", "U+1E24", "U+1E26", "U+1E28", "U+1E2A",
         "U+210B", "U+210C", "U+210D", "U+24BD", "U+FF28", "U+1D407", "U+1D43B", "U+1D46F",
         "U+1D4D7", "U+1D573", "U+1D5A7", "U+1D5DB", "U+1D60F", "U+1D643", "U+1D677", "U+1F137"}>>,
      <<<<"H", "P">>,
        {"U+33CB"}>>,
      <<<<"H", "V">>,
        {"U+1F14A"}>>,
      <<<<"H", "g">>,
        {"U+32CC"}>>,
      <<<<"H", "z">>,
        {"U+3390"}>>,
      <<<<"I">>,
        {"U+00CC", "U+00CD", "U+00CE", "U+00CF", "U+0128", "U+012A", "U+012C", "U+012E",
         "U+0130", "U+01CF", "U+0208", "U+020A", "U+1D35", "U+1E2C", "U+1E2E", "U+1EC8",
         "U+1ECA", "U+2110", "U+2111", "U+2160", "U+24BE", "U+FF29", "U+1D408", "U+1D43C",
         "U+1D470", "U+1D4D8", "U+1D540", "U+1D574", "U+1D5A8", "U+1D5DC", "U+1D610",
         "U+1D644", "U+1D678", "U+1F138"}>>,
      <<<<"I", "I">>,
        {"U+2161"}>>,
      <<<<"I", "I", "I">>,
        {"U+2162"}>>,
      <<<<"I", "J">>,
        {"U+0132"}>>,
      <<<<"I", "U">>,
        {"U+337A"}>>,
      <<<<"I", "V">>,
        {"U+2163"}>>,
      <<<<"I", "X">>,
        {"U+2168"}>>,
      <<<<"J">>,
        {"U+0134", "U+1D36", "U+24BF", "U+FF2A", "U+1D409", "U+1D43D", "U+1D471", "U+1D4A5",
         "U+1D4D9", "U+1D50D", "U+1D541", "U+1D575", "U+1D5A9", "U+1D5DD", "U+1D611",
         "U+1D645", "U+1D679", "U+1F139"}>>,
      <<<<"K">>,
        {"U+0136", "U+01E8", "U+1D37", "U+1E30", "U+1E32", "U+1E34", "U+212A", "U+24C0",
         "U+FF2B", "U+1D40A", "U+1D43E", "U+1D472", "U+1D4A6", "U+1D4DA", "U+1D50E", "U+1D542",
         "U+1D576", "U+1D5AA", "U+1D5DE", "U+1D612", "U+1D646", "U+1D67A", "U+1F13A"}>>,
      <<<<"K", "B">>,
        {"U+3385"}>>,
      <<<<"K", "K">>,
        {"U+33CD"}>>,
      <<<<"K", "M">>,
        {"U+33CE"}>>,
      <<<<"L">>,
        {"U+0139", "U+013B", "U+013D", "U+013F", "U+1D38", "U+1E36", "U+1E38", "U+1E3A",
         "U+1E3C", "U+2112", "U+216C", "U+24C1", "U+FF2C", "U+1D40B", "U+1D43F", "U+1D473",
         "U+1D4DB", "U+1D50F", "U+1D543", "U+1D577", "U+1D5AB", "U+1D5DF", "U+1D613",
         "U+1D647", "U+1D67B", "U+1F13B"}>>,
      <<<<"L", "J">>,
        {"U+01C7"}>>,
      <<<<"L", "T", "D">>,
        {"U+32CF"}>>,
      <<<<"L", "j">>,
        {"U+01C8"}>>,
      <<<<"M">>,
        {"U+1D39", "U+1E3E", "U+1E40", "U+1E42", "U+2133", "U+216F", "U+24C2", "U+33C1",
         "U+FF2D", "U+1D40C", "U+1D440", "U+1D474", "U+1D4DC", "U+1D510", "U+1D544", "U+1D578",
         "U+1D5AC", "U+1D5E0", "U+1D614", "U+1D648", "U+1D67C", "U+1F13C"}>>,
      <<<<"M", "B">>,
        {"U+3386"}>>,
      <<<<"M", "C">>,
        {"U+1F16A"}>>,
      <<<<"M", "D">>,
        {"U+1F16B"}>>,
      <<<<"M", "H", "z">>,
        {"U+3392"}>>,
      <<<<"M", "P", "a">>,
        {"U+33AB"}>>,
      <<<<"M", "R">>,
        {"U+1F16C"}>>,
      <<<<"M", "V">>,
        {"U+33B9", "U+1F14B"}>>,
      <<<<"M", "W">>,
        {"U+33BF"}>>,
      <<<<"N">>,
        {"U+00D1", "U+0143", "U+0145", "U+0147", "U+01F8", "U+1D3A", "U+1E44", "U+1E46",
         "U+1E48", "U+1E4A", "U+2115", "U+24C3", "U+FF2E", "U+1D40D", "U+1D441", "U+1D475",
         "U+1D4A9", "U+1D4DD", "U+1D511", "U+1D579", "U+1D5AD", "U+1D5E1", "U+1D615",
         "U+1D649", "U+1D67D", "U+1F13D"}>>,
      <<<<"N", "J">>,
        {"U+01CA"}>>,
      <<<<"N", "j">>,
        {"U+01CB"}>>,
      <<<<"N", "o">>,
        {"U+2116"}>>,
      <<<<"O">>,
        {"U+00D2", "U+00D3", "U+00D4", "U+00D5", "U+00D6", "U+014C", "U+014E", "U+0150",
         "U+01A0", "U+01D1", "U+01EA", "U+01EC", "U+020C", "U+020E", "U+022A", "U+022C",
         "U+022E", "U+0230", "U+1D3C", "U+1E4C", "U+1E4E", "U+1E50", "U+1E52", "U+1ECC",
         "U+1ECE", "U+1ED0", "U+1ED2", "U+1ED4", "U+1ED6", "U+1ED8", "U+1EDA", "U+1EDC",
         "U+1EDE", "U+1EE0", "U+1EE2", "U+24C4", "U+FF2F", "U+1D40E", "U+1D442", "U+1D476",
         "U+1D4AA", "U+1D4DE", "U+1D512", "U+1D546", "U+1D57A", "U+1D5AE", "U+1D5E2",
         "U+1D616", "U+1D64A", "U+1D67E", "U+1F13E"}>>,
      <<<<"P">>,
        {"U+1D3E", "U+1E54", "U+1E56", "U+2119", "U+24C5", "U+FF30", "U+1D40F", "U+1D443",
         "U+1D477", "U+1D4AB", "U+1D4DF", "U+1D513", "U+1D57B", "U+1D5AF", "U+1D5E3",
         "U+1D617", "U+1D64B", "U+1D67F", "U+1F13F"}>>,
      <<<<"P", "H">>,
        {"U+33D7"}>>,
      <<<<"P", "P", "M">>,
        {"U+33D9"}>>,
      <<<<"P", "P", "V">>,
        {"U+1F14E"}>>,
      <<<<"P", "R">>,
        {"U+33DA"}>>,
      <<<<"P", "T", "E">>,
        {"U+3250"}>>,
      <<<<"P", "a">>,
        {"U+33A9"}>>,
      <<<<"Q">>,
        {"U+211A", "U+24C6", "U+A7F4", "U+FF31", "U+1D410", "U+1D444", "U+1D478", "U+1D4AC",
         "U+1D4E0", "U+1D514", "U+1D57C", "U+1D5B0", "U+1D5E4", "U+1D618", "U+1D64C",
         "U+1D680", "U+1F140"}>>,
      <<<<"R">>,
        {"U+0154", "U+0156", "U+0158", "U+0210", "U+0212", "U+1D3F", "U+1E58", "U+1E5A",
         "U+1E5C", "U+1E5E", "U+211B", "U+211C", "U+211D", "U+24C7", "U+FF32", "U+1D411",
         "U+1D445", "U+1D479", "U+1D4E1", "U+1D57D", "U+1D5B1", "U+1D5E5", "U+1D619",
         "U+1D64D", "U+1D681", "U+1F12C", "U+1F141"}>>,
      <<<<"R", "s">>,
        {"U+20A8"}>>,
      <<<<"S">>,
        {"U+015A", "U+015C", "U+015E", "U+0160", "U+0218", "U+1E60", "U+1E62", "U+1E64",
         "U+1E66", "U+1E68", "U+24C8", "U+FF33", "U+1D412", "U+1D446", "U+1D47A", "U+1D4AE",
         "U+1D4E2", "U+1D516", "U+1D54A", "U+1D57E", "U+1D5B2", "U+1D5E6", "U+1D61A",
         "U+1D64E", "U+1D682", "U+1F12A", "U+1F142"}>>,
      <<<<"S", "D">>,
        {"U+1F14C"}>>,
      <<<<"S", "M">>,
        {"U+2120"}>>,
      <<<<"S", "S">>,
        {"U+1F14D"}>>,
      <<<<"S", "v">>,
        {"U+33DC"}>>,
      <<<<"T">>,
        {"U+0162", "U+0164", "U+021A", "U+1D40", "U+1E6A", "U+1E6C", "U+1E6E", "U+1E70",
         "U+24C9", "U+FF34", "U+1D413", "U+1D447", "U+1D47B", "U+1D4AF", "U+1D4E3", "U+1D517",
         "U+1D54B", "U+1D57F", "U+1D5B3", "U+1D5E7", "U+1D61B", "U+1D64F", "U+1D683", "U+1F143"}>>,
      <<<<"T", "E", "L">>,
        {"U+2121"}>>,
      <<<<"T", "H", "z">>,
        {"U+3394"}>>,
      <<<<"T", "M">>,
        {"U+2122"}>>,
      <<<<"U">>,
        {"U+00D9", "U+00DA", "U+00DB", "U+00DC", "U+0168", "U+016A", "U+016C", "U+016E",
         "U+0170", "U+0172", "U+01AF", "U+01D3", "U+01D5", "U+01D7", "U+01D9", "U+01DB",
         "U+0214", "U+0216", "U+1D41", "U+1E72", "U+1E74", "U+1E76", "U+1E78", "U+1E7A",
         "U+1EE4", "U+1EE6", "U+1EE8", "U+1EEA", "U+1EEC", "U+1EEE", "U+1EF0", "U+24CA",
         "U+FF35", "U+1D414", "U+1D448", "U+1D47C", "U+1D4B0", "U+1D4E4", "U+1D518", "U+1D54C",
         "U+1D580", "U+1D5B4", "U+1D5E8", "U+1D61C", "U+1D650", "U+1D684", "U+1F144"}>>,
      <<<<"V">>,
        {"U+1E7C", "U+1E7E", "U+2164", "U+24CB", "U+2C7D", "U+33B6", "U+FF36", "U+1D415",
         "U+1D449", "U+1D47D", "U+1D4B1", "U+1D4E5", "U+1D519", "U+1D54D", "U+1D581",
         "U+1D5B5", "U+1D5E9", "U+1D61D", "U+1D651", "U+1D685", "U+1F145"}>>,
      <<<<"V", "I">>,
        {"U+2165"}>>,
      <<<<"V", "I", "I">>,
        {"U+2166"}>>,
      <<<<"V", "I", "I", "I">>,
        {"U+2167"}>>,
      <<<<"V", "m">>,
        {"U+33DE"}>>,
      <<<<"W">>,
        {"U+0174", "U+1D42", "U+1E80", "U+1E82", "U+1E84", "U+1E86", "U+1E88", "U+24CC",
         "U+33BC", "U+FF37", "U+1D416", "U+1D44A", "U+1D47E", "U+1D4B2", "U+1D4E6", "U+1D51A",
         "U+1D54E", "U+1D582", "U+1D5B6", "U+1D5EA", "U+1D61E", "U+1D652", "U+1D686", "U+1F146"}>>,
      <<<<"W", "C">>,
        {"U+1F14F"}>>,
      <<<<"W", "Z">>,
        {"U+1F12E"}>>,
      <<<<"W", "b">>,
        {"U+33DD"}>>,
      <<<<"X">>,
        {"U+1E8A", "U+1E8C", "U+2169", "U+24CD", "U+FF38", "U+1D417", "U+1D44B", "U+1D47F",
         "U+1D4B3", "U+1D4E7", "U+1D51B", "U+1D54F", "U+1D583", "U+1D5B7", "U+1D5EB",
         "U+1D61F", "U+1D653", "U+1D687", "U+1F147"}>>,
      <<<<"X", "I">>,
        {"U+216A"}>>,
      <<<<"X", "I", "I">>,
        {"U+216B"}>>,
      <<<<"Y">>,
        {"U+00DD", "U+0176", "U+0178", "U+0232", "U+1E8E", "U+1EF2", "U+1EF4", "U+1EF6",
         "U+1EF8", "U+24CE", "U+FF39", "U+1D418", "U+1D44C", "U+1D480", "U+1D4B4", "U+1D4E8",
         "U+1D51C", "U+1D550", "U+1D584", "U+1D5B8", "U+1D5EC", "U+1D620", "U+1D654",
         "U+1D688", "U+1F148"}>>,
      <<<<"Z">>,
        {"U+0179", "U+017B", "U+017D", "U+1E90", "U+1E92", "U+1E94", "U+2124", "U+2128",
         "U+24CF", "U+FF3A", "U+1D419", "U+1D44D", "U+1D481", "U+1D4B5", "U+1D4E9", "U+1D585",
         "U+1D5B9", "U+1D5ED", "U+1D621", "U+1D655", "U+1D689", "U+1F149"}>>,
      <<<<"[">>,
        {"U+FE47", "U+FF3B"}>>,
      <<<<"\\">>,
        {"U+FE68", "U+FF3C"}>>,
      <<<<"]">>,
        {"U+FE48", "U+FF3D"}>>,
      <<<<"^">>,
        {"U+FF3E"}>>,
      <<<<"_">>,
        {"U+FE33", "U+FE34", "U+FE4D", "U+FE4E", "U+FE4F", "U+FF3F"}>>,
      <<<<"U+0060">>,
        {"U+1FEF", "U+FF40"}>>,
      <<<<"a">>,
        {"U+00AA", "U+00E0", "U+00E1", "U+00E2", "U+00E3", "U+00E4", "U+00E5", "U+0101",
         "U+0103", "U+0105", "U+01CE", "U+01DF", "U+01E1", "U+01FB", "U+0201", "U+0203",
         "U+0227", "U+1D43", "U+1E01", "U+1E9A", "U+1EA1", "U+1EA3", "U+1EA5", "U+1EA7",
         "U+1EA9", "U+1EAB", "U+1EAD", "U+1EAF", "U+1EB1", "U+1EB3", "U+1EB5", "U+1EB7",
         "U+2090", "U+24D0", "U+FF41", "U+1D41A", "U+1D44E", "U+1D482", "U+1D4B6", "U+1D4EA",
         "U+1D51E", "U+1D552", "U+1D586", "U+1D5BA", "U+1D5EE", "U+1D622", "U+1D656", "U+1D68A"}>>,
      <<<<"a", ".", "m", ".">>,
        {"U+33C2"}>>,
      <<<<"a", "/", "c">>,
        {"U+2100"}>>,
      <<<<"a", "/", "s">>,
        {"U+2101"}>>,
      <<<<"b">>,
        {"U+1D47", "U+1E03", "U+1E05", "U+1E07", "U+24D1", "U+FF42", "U+1D41B", "U+1D44F",
         "U+1D483", "U+1D4B7", "U+1D4EB", "U+1D51F", "U+1D553", "U+1D587", "U+1D5BB",
         "U+1D5EF", "U+1D623", "U+1D657", "U+1D68B"}>>,
      <<<<"b", "a", "r">>,
        {"U+3374"}>>,
      <<<<"c">>,
        {"U+00E7", "U+0107", "U+0109", "U+010B", "U+010D", "U+1D9C", "U+1E09", "U+217D",
         "U+24D2", "U+FF43", "U+1D41C", "U+1D450", "U+1D484", "U+1D4B8", "U+1D4EC", "U+1D520",
         "U+1D554", "U+1D588", "U+1D5BC", "U+1D5F0", "U+1D624", "U+1D658", "U+1D68C"}>>,
      <<<<"c", "/", "o">>,
        {"U+2105"}>>,
      <<<<"c", "/", "u">>,
        {"U+2106"}>>,
      <<<<"c", "a", "l">>,
        {"U+3388"}>>,
      <<<<"c", "c">>,
        {"U+33C4"}>>,
      <<<<"c", "d">>,
        {"U+33C5"}>>,
      <<<<"c", "m">>,
        {"U+339D"}>>,
      <<<<"c", "m", "2">>,
        {"U+33A0"}>>,
      <<<<"c", "m", "3">>,
        {"U+33A4"}>>,
      <<<<"d">>,
        {"U+010F", "U+1D48", "U+1E0B", "U+1E0D", "U+1E0F", "U+1E11", "U+1E13", "U+2146",
         "U+217E", "U+24D3", "U+FF44", "U+1D41D", "U+1D451", "U+1D485", "U+1D4B9", "U+1D4ED",
         "U+1D521", "U+1D555", "U+1D589", "U+1D5BD", "U+1D5F1", "U+1D625", "U+1D659", "U+1D68D"}>>,
      <<<<"d", "B">>,
        {"U+33C8"}>>,
      <<<<"d", "a">>,
        {"U+3372"}>>,
      <<<<"d", "l">>,
        {"U+3397"}>>,
      <<<<"d", "m">>,
        {"U+3377"}>>,
      <<<<"d", "m", "2">>,
        {"U+3378"}>>,
      <<<<"d", "m", "3">>,
        {"U+3379"}>>,
      <<<<"d", "z">>,
        {"U+01C6", "U+01F3"}>>,
      <<<<"e">>,
        {"U+00E8", "U+00E9", "U+00EA", "U+00EB", "U+0113", "U+0115", "U+0117", "U+0119",
         "U+011B", "U+0205", "U+0207", "U+0229", "U+1D49", "U+1E15", "U+1E17", "U+1E19",
         "U+1E1B", "U+1E1D", "U+1EB9", "U+1EBB", "U+1EBD", "U+1EBF", "U+1EC1", "U+1EC3",
         "U+1EC5", "U+1EC7", "U+2091", "U+212F", "U+2147", "U+24D4", "U+FF45", "U+1D41E",
         "U+1D452", "U+1D486", "U+1D4EE", "U+1D522", "U+1D556", "U+1D58A", "U+1D5BE",
         "U+1D5F2", "U+1D626", "U+1D65A", "U+1D68E"}>>,
      <<<<"e", "V">>,
        {"U+32CE"}>>,
      <<<<"e", "r", "g">>,
        {"U+32CD"}>>,
      <<<<"f">>,
        {"U+1DA0", "U+1E1F", "U+24D5", "U+FF46", "U+1D41F", "U+1D453", "U+1D487", "U+1D4BB",
         "U+1D4EF", "U+1D523", "U+1D557", "U+1D58B", "U+1D5BF", "U+1D5F3", "U+1D627",
         "U+1D65B", "U+1D68F"}>>,
      <<<<"f", "f">>,
        {"U+FB00"}>>,
      <<<<"f", "f", "i">>,
        {"U+FB03"}>>,
      <<<<"f", "f", "l">>,
        {"U+FB04"}>>,
      <<<<"f", "i">>,
        {"U+FB01"}>>,
      <<<<"f", "l">>,
        {"U+FB02"}>>,
      <<<<"f", "m">>,
        {"U+3399"}>>,
      <<<<"g">>,
        {"U+011D", "U+011F", "U+0121", "U+0123", "U+01E7", "U+01F5", "U+1D4D", "U+1E21",
         "U+210A", "U+24D6", "U+338D", "U+FF47", "U+1D420", "U+1D454", "U+1D488", "U+1D4F0",
         "U+1D524", "U+1D558", "U+1D58C", "U+1D5C0", "U+1D5F4", "U+1D628", "U+1D65C", "U+1D690"}>>,
      <<<<"g", "a", "l">>,
        {"U+33FF"}>>,
      <<<<"h">>,
        {"U+0125", "U+021F", "U+02B0", "U+1E23", "U+1E25", "U+1E27", "U+1E29", "U+1E2B",
         "U+1E96", "U+2095", "U+210E", "U+24D7", "U+FF48", "U+1D421", "U+1D489", "U+1D4BD",
         "U+1D4F1", "U+1D525", "U+1D559", "U+1D58D", "U+1D5C1", "U+1D5F5", "U+1D629",
         "U+1D65D", "U+1D691"}>>,
      <<<<"h", "P", "a">>,
        {"U+3371"}>>,
      <<<<"h", "a">>,
        {"U+33CA"}>>,
      <<<<"i">>,
        {"U+00EC", "U+00ED", "U+00EE", "U+00EF", "U+0129", "U+012B", "U+012D", "U+012F",
         "U+01D0", "U+0209", "U+020B", "U+1D62", "U+1E2D", "U+1E2F", "U+1EC9", "U+1ECB",
         "U+2071", "U+2139", "U+2148", "U+2170", "U+24D8", "U+FF49", "U+1D422", "U+1D456",
         "U+1D48A", "U+1D4BE", "U+1D4F2", "U+1D526", "U+1D55A", "U+1D58E", "U+1D5C2",
         "U+1D5F6", "U+1D62A", "U+1D65E", "U+1D692"}>>,
      <<<<"i", "i">>,
        {"U+2171"}>>,
      <<<<"i", "i", "i">>,
        {"U+2172"}>>,
      <<<<"i", "j">>,
        {"U+0133"}>>,
      <<<<"i", "n">>,
        {"U+33CC"}>>,
      <<<<"i", "v">>,
        {"U+2173"}>>,
      <<<<"i", "x">>,
        {"U+2178"}>>,
      <<<<"j">>,
        {"U+0135", "U+01F0", "U+02B2", "U+2149", "U+24D9", "U+2C7C", "U+FF4A", "U+1D423",
         "U+1D457", "U+1D48B", "U+1D4BF", "U+1D4F3", "U+1D527", "U+1D55B", "U+1D58F",
         "U+1D5C3", "U+1D5F7", "U+1D62B", "U+1D65F", "U+1D693"}>>,
      <<<<"k">>,
        {"U+0137", "U+01E9", "U+1D4F", "U+1E31", "U+1E33", "U+1E35", "U+2096", "U+24DA",
         "U+33C0", "U+FF4B", "U+1D424", "U+1D458", "U+1D48C", "U+1D4C0", "U+1D4F4", "U+1D528",
         "U+1D55C", "U+1D590", "U+1D5C4", "U+1D5F8", "U+1D62C", "U+1D660", "U+1D694"}>>,
      <<<<"k", "A">>,
        {"U+3384"}>>,
      <<<<"k", "H", "z">>,
        {"U+3391"}>>,
      <<<<"k", "P", "a">>,
        {"U+33AA"}>>,
      <<<<"k", "V">>,
        {"U+33B8"}>>,
      <<<<"k", "W">>,
        {"U+33BE"}>>,
      <<<<"k", "c", "a", "l">>,
        {"U+3389"}>>,
      <<<<"k", "g">>,
        {"U+338F"}>>,
      <<<<"k", "l">>,
        {"U+3398"}>>,
      <<<<"k", "m">>,
        {"U+339E"}>>,
      <<<<"k", "m", "2">>,
        {"U+33A2"}>>,
      <<<<"k", "m", "3">>,
        {"U+33A6"}>>,
      <<<<"k", "t">>,
        {"U+33CF"}>>,
      <<<<"l">>,
        {"U+013A", "U+013C", "U+013E", "U+0140", "U+02E1", "U+1E37", "U+1E39", "U+1E3B",
         "U+1E3D", "U+2097", "U+2113", "U+217C", "U+24DB", "U+3395", "U+FF4C", "U+1D425",
         "U+1D459", "U+1D48D", "U+1D4C1", "U+1D4F5", "U+1D529", "U+1D55D", "U+1D591",
         "U+1D5C5", "U+1D5F9", "U+1D62D", "U+1D661", "U+1D695"}>>,
      <<<<"l", "j">>,
        {"U+01C9"}>>,
      <<<<"l", "m">>,
        {"U+33D0"}>>,
      <<<<"l", "n">>,
        {"U+33D1"}>>,
      <<<<"l", "o", "g">>,
        {"U+33D2"}>>,
      <<<<"l", "x">>,
        {"U+33D3"}>>,
      <<<<"m">>,
        {"U+1D50", "U+1E3F", "U+1E41", "U+1E43", "U+2098", "U+217F", "U+24DC", "U+339B",
         "U+FF4D", "U+1D426", "U+1D45A", "U+1D48E", "U+1D4C2", "U+1D4F6", "U+1D52A", "U+1D55E",
         "U+1D592", "U+1D5C6", "U+1D5FA", "U+1D62E", "U+1D662", "U+1D696"}>>,
      <<<<"m", "2">>,
        {"U+33A1"}>>,
      <<<<"m", "3">>,
        {"U+33A5"}>>,
      <<<<"m", "A">>,
        {"U+3383"}>>,
      <<<<"m", "V">>,
        {"U+33B7"}>>,
      <<<<"m", "W">>,
        {"U+33BD"}>>,
      <<<<"m", "b">>,
        {"U+33D4"}>>,
      <<<<"m", "g">>,
        {"U+338E"}>>,
      <<<<"m", "i", "l">>,
        {"U+33D5"}>>,
      <<<<"m", "l">>,
        {"U+3396"}>>,
      <<<<"m", "m">>,
        {"U+339C"}>>,
      <<<<"m", "m", "2">>,
        {"U+339F"}>>,
      <<<<"m", "m", "3">>,
        {"U+33A3"}>>,
      <<<<"m", "o", "l">>,
        {"U+33D6"}>>,
      <<<<"m", "s">>,
        {"U+33A7", "U+33B3"}>>,
      <<<<"m", "s", "2">>,
        {"U+33A8"}>>,
      <<<<"n">>,
        {"U+00F1", "U+0144", "U+0146", "U+0148", "U+0149", "U+01F9", "U+1E45", "U+1E47",
         "U+1E49", "U+1E4B", "U+207F", "U+2099", "U+24DD", "U+FF4E", "U+1D427", "U+1D45B",
         "U+1D48F", "U+1D4C3", "U+1D4F7", "U+1D52B", "U+1D55F", "U+1D593", "U+1D5C7",
         "U+1D5FB", "U+1D62F", "U+1D663", "U+1D697"}>>,
      <<<<"n", "A">>,
        {"U+3381"}>>,
      <<<<"n", "F">>,
        {"U+338B"}>>,
      <<<<"n", "V">>,
        {"U+33B5"}>>,
      <<<<"n", "W">>,
        {"U+33BB"}>>,
      <<<<"n", "j">>,
        {"U+01CC"}>>,
      <<<<"n", "m">>,
        {"U+339A"}>>,
      <<<<"n", "s">>,
        {"U+33B1"}>>,
      <<<<"o">>,
        {"U+00BA", "U+00F2", "U+00F3", "U+00F4", "U+00F5", "U+00F6", "U+014D", "U+014F",
         "U+0151", "U+01A1", "U+01D2", "U+01EB", "U+01ED", "U+020D", "U+020F", "U+022B",
         "U+022D", "U+022F", "U+0231", "U+1D52", "U+1E4D", "U+1E4F", "U+1E51", "U+1E53",
         "U+1ECD", "U+1ECF", "U+1ED1", "U+1ED3", "U+1ED5", "U+1ED7", "U+1ED9", "U+1EDB",
         "U+1EDD", "U+1EDF", "U+1EE1", "U+1EE3", "U+2092", "U+2134", "U+24DE", "U+FF4F",
         "U+1D428", "U+1D45C", "U+1D490", "U+1D4F8", "U+1D52C", "U+1D560", "U+1D594",
         "U+1D5C8", "U+1D5FC", "U+1D630", "U+1D664", "U+1D698"}>>,
      <<<<"o", "V">>,
        {"U+3375"}>>,
      <<<<"p">>,
        {"U+1D56", "U+1E55", "U+1E57", "U+209A", "U+24DF", "U+FF50", "U+1D429", "U+1D45D",
         "U+1D491", "U+1D4C5", "U+1D4F9", "U+1D52D", "U+1D561", "U+1D595", "U+1D5C9",
         "U+1D5FD", "U+1D631", "U+1D665", "U+1D699"}>>,
      <<<<"p", ".", "m", ".">>,
        {"U+33D8"}>>,
      <<<<"p", "A">>,
        {"U+3380"}>>,
      <<<<"p", "F">>,
        {"U+338A"}>>,
      <<<<"p", "V">>,
        {"U+33B4"}>>,
      <<<<"p", "W">>,
        {"U+33BA"}>>,
      <<<<"p", "c">>,
        {"U+3376"}>>,
      <<<<"p", "s">>,
        {"U+33B0"}>>,
      <<<<"q">>,
        {"U+24E0", "U+FF51", "U+107A5", "U+1D42A", "U+1D45E", "U+1D492", "U+1D4C6", "U+1D4FA",
         "U+1D52E", "U+1D562", "U+1D596", "U+1D5CA", "U+1D5FE", "U+1D632", "U+1D666", "U+1D69A"}>>,
      <<<<"r">>,
        {"U+0155", "U+0157", "U+0159", "U+0211", "U+0213", "U+02B3", "U+1D63", "U+1E59",
         "U+1E5B", "U+1E5D", "U+1E5F", "U+24E1", "U+FF52", "U+1D42B", "U+1D45F", "U+1D493",
         "U+1D4C7", "U+1D4FB", "U+1D52F", "U+1D563", "U+1D597", "U+1D5CB", "U+1D5FF",
         "U+1D633", "U+1D667", "U+1D69B"}>>,
      <<<<"r", "a", "d">>,
        {"U+33AD"}>>,
      <<<<"r", "a", "d", "s">>,
        {"U+33AE"}>>,
      <<<<"r", "a", "d", "s", "2">>,
        {"U+33AF"}>>,
      <<<<"s">>,
        {"U+015B", "U+015D", "U+015F", "U+0161", "U+017F", "U+0219", "U+02E2", "U+1E61",
         "U+1E63", "U+1E65", "U+1E67", "U+1E69", "U+1E9B", "U+209B", "U+24E2", "U+33B2",
         "U+FF53", "U+1D42C", "U+1D460", "U+1D494", "U+1D4C8", "U+1D4FC", "U+1D530", "U+1D564",
         "U+1D598", "U+1D5CC", "U+1D600", "U+1D634", "U+1D668", "U+1D69C"}>>,
      <<<<"s", "r">>,
        {"U+33DB"}>>,
      <<<<"s", "t">>,
        {"U+FB05", "U+FB06"}>>,
      <<<<"t">>,
        {"U+0163", "U+0165", "U+021B", "U+1D57", "U+1E6B", "U+1E6D", "U+1E6F", "U+1E71",
         "U+1E97", "U+209C", "U+24E3", "U+FF54", "U+1D42D", "U+1D461", "U+1D495", "U+1D4C9",
         "U+1D4FD", "U+1D531", "U+1D565", "U+1D599", "U+1D5CD", "U+1D601", "U+1D635",
         "U+1D669", "U+1D69D"}>>,
      <<<<"u">>,
        {"U+00F9", "U+00FA", "U+00FB", "U+00FC", "U+0169", "U+016B", "U+016D", "U+016F",
         "U+0171", "U+0173", "U+01B0", "U+01D4", "U+01D6", "U+01D8", "U+01DA", "U+01DC",
         "U+0215", "U+0217", "U+1D58", "U+1D64", "U+1E73", "U+1E75", "U+1E77", "U+1E79",
         "U+1E7B", "U+1EE5", "U+1EE7", "U+1EE9", "U+1EEB", "U+1EED", "U+1EEF", "U+1EF1",
         "U+24E4", "U+FF55", "U+1D42E", "U+1D462", "U+1D496", "U+1D4CA", "U+1D4FE", "U+1D532",
         "U+1D566", "U+1D59A", "U+1D5CE", "U+1D602", "U+1D636", "U+1D66A", "U+1D69E"}>>,
      <<<<"v">>,
        {"U+1D5B", "U+1D65", "U+1E7D", "U+1E7F", "U+2174", "U+24E5", "U+FF56", "U+1D42F",
         "U+1D463", "U+1D497", "U+1D4CB", "U+1D4FF", "U+1D533", "U+1D567", "U+1D59B",
         "U+1D5CF", "U+1D603", "U+1D637", "U+1D66B", "U+1D69F"}>>,
      <<<<"v", "i">>,
        {"U+2175"}>>,
      <<<<"v", "i", "i">>,
        {"U+2176"}>>,
      <<<<"v", "i", "i", "i">>,
        {"U+2177"}>>,
      <<<<"w">>,
        {"U+0175", "U+02B7", "U+1E81", "U+1E83", "U+1E85", "U+1E87", "U+1E89", "U+1E98",
         "U+24E6", "U+FF57", "U+1D430", "U+1D464", "U+1D498", "U+1D4CC", "U+1D500", "U+1D534",
         "U+1D568", "U+1D59C", "U+1D5D0", "U+1D604", "U+1D638", "U+1D66C", "U+1D6A0"}>>,
      <<<<"x">>,
        {"U+02E3", "U+1E8B", "U+1E8D", "U+2093", "U+2179", "U+24E7", "U+FF58", "U+1D431",
         "U+1D465", "U+1D499", "U+1D4CD", "U+1D501", "U+1D535", "U+1D569", "U+1D59D",
         "U+1D5D1", "U+1D605", "U+1D639", "U+1D66D", "U+1D6A1"}>>,
      <<<<"x", "i">>,
        {"U+217A"}>>,
      <<<<"x", "i", "i">>,
        {"U+217B"}>>,
      <<<<"y">>,
        {"U+00FD", "U+00FF", "U+0177", "U+0233", "U+02B8", "U+1E8F", "U+1E99", "U+1EF3",
         "U+1EF5", "U+1EF7", "U+1EF9", "U+24E8", "U+FF59", "U+1D432", "U+1D466", "U+1D49A",
         "U+1D4CE", "U+1D502", "U+1D536", "U+1D56A", "U+1D59E", "U+1D5D2", "U+1D606",
         "U+1D63A", "U+1D66E", "U+1D6A2"}>>,
      <<<<"z">>,
        {"U+017A", "U+017C", "U+017E", "U+1DBB", "U+1E91", "U+1E93", "U+1E95", "U+24E9",
         "U+FF5A", "U+1D433", "U+1D467", "U+1D49B", "U+1D4CF", "U+1D503", "U+1D537", "U+1D56B",
         "U+1D59F", "U+1D5D3", "U+1D607", "U+1D63B", "U+1D66F", "U+1D6A3"}>>,
      <<<<"{">>,
        {"U+FE37", "U+FE5B", "U+FF5B"}>>,
      <<<<"|">>,
        {"U+FF5C"}>>,
      <<<<"}">>,
        {"U+FE38", "U+FE5C", "U+FF5D"}>>,
      <<<<"~">>,
        {"U+FF5E"}>> }

\* the ASCII part of one character
NfkdAscii(c) ==
    IF c \in Ascii THEN <<c>>
    ELSE IF \E k \in NfkdClasses : c \in k[2]
         THEN (CHOOSE k \in NfkdClasses : c \in k[2])[1]
         ELSE <<>>

Normalize(s) == Concat([i \in 1..Len(s) |-> NfkdAscii(s[i])])

\* filename.replace(os.sep, " ")
ReplaceSep(s) == [i \in 1..Len(s) |-> IF s[i] = "/" THEN " " ELSE s[i]]

\* str.isspace on an ASCII character: space, \t, \n, \r, \f (U+000C),
\* \v (U+000B) and the separators U+001C to U+001F
IsSpace(c) ==
    c \in {" ", "\t", "\n", "\r", "\f", "U+000B", "U+001C", "U+001D", "U+001E", "U+001F"}

\* str.split(): the maximal runs of non-whitespace characters
RECURSIVE SplitFrom(_, _, _)
SplitFrom(s, i, cur) ==
    IF i > Len(s)
    THEN (IF cur = <<>> THEN <<>> ELSE <<cur>>)
    ELSE IF IsSpace(s[i])
         THEN (IF cur = <<>> THEN <<>> ELSE <<cur>>) \o SplitFrom(s, i + 1, <<>>)
         ELSE SplitFrom(s, i + 1, Append(cur, s[i]))

Split(s) == SplitFrom(s, 1, <<>>)

\* "_".join(words)
RECURSIVE JoinUnderscore(_)
JoinUnderscore(ws) ==
    IF ws = <<>> THEN <<>>
    ELSE IF Len(ws) = 1 THEN ws[1]
    ELSE ws[1] \o <<"_">> \o JoinUnderscore(Tail(ws))

\* the characters _filename_ascii_strip_re = [^A-Za-z0-9_.-] leaves in place
SafeChars ==
    {"a","b","c","d","e","f","g","h","i","j","k","l","m","n","o","p","q","r",
     "s","t","u","v","w","x","y","z","A","B","C","D","E","F","G","H","I","J",
     "K","L","M","N","O","P","Q","R","S","T","U","V","W","X","Y","Z","0","1",
     "2","3","4","5","6","7","8","9","_",".","-"}

AsciiStrip(s) == SelectSeq(s, LAMBDA c : c \in SafeChars)

\* str.strip("._")
RECURSIVE LStrip(_)
LStrip(s) ==
    IF s # <<>> /\ Head(s) \in {".", "_"} THEN LStrip(Tail(s)) ELSE s

RECURSIVE RStrip(_)
RStrip(s) ==
    IF s # <<>> /\ s[Len(s)] \in {".", "_"}
    THEN RStrip(SubSeq(s, 1, Len(s) - 1))
    ELSE s

Strip(s) == RStrip(LStrip(s))

\* A sanitiser that forgets the final strip("._"): ".." stays "..".
secure_filename_nostrip(filename) ==
    AsciiStrip(JoinUnderscore(Split(ReplaceSep(Normalize(filename)))))

secure_filename(filename) ==
    Strip(AsciiStrip(JoinUnderscore(Split(ReplaceSep(Normalize(filename))))))

\* ------------------------------------------------------------------ paths
UPLOAD_FOLDER == <<".","/","u","p","l","o","a","d","s">>

\* os.path.join(a, b) on POSIX: an absolute b replaces a
PathJoin(a, b) ==
    IF b # <<>> /\ Head(b) = "/" THEN b
    ELSE IF a = <<>> \/ a[Len(a)] = "/" THEN a \o b
    ELSE a \o <<"/">> \o b

\* the components of a path, split at "/"
RECURSIVE ComponentsFrom(_, _, _)
ComponentsFrom(s, i, cur) ==
    IF i > Len(s) THEN <<cur>>
    ELSE IF s[i] = "/" THEN <<cur>> \o ComponentsFrom(s, i + 1, <<>>)
    ELSE ComponentsFrom(s, i + 1, Append(cur, s[i]))

Components(s) == ComponentsFrom(s, 1, <<>>)

\* The file a path names, as the kernel resolves it against the working
\* directory: "" and "." are skipped, ".." leaves the current directory
\* (counted in up when it leaves the working directory itself).
RECURSIVE ResolveFrom(_, _, _, _)
ResolveFrom(cs, i, up, acc) ==
    IF i > Len(cs) THEN [up |-> up, comps |-> acc]
    ELSE IF cs[i] = <<>> \/ cs[i] = <<".">> THEN ResolveFrom(cs, i + 1, up, acc)
    ELSE IF cs[i] = <<".", ".">>
         THEN IF acc = <<>> THEN ResolveFrom(cs, i + 1, up + 1, acc)
              ELSE ResolveFrom(cs, i + 1, up, SubSeq(acc, 1, Len(acc) - 1))
    ELSE ResolveFrom(cs, i + 1, up, Append(acc, cs[i]))

Resolve(path) ==
    LET r == ResolveFrom(Components(path), 1, 0, <<>>)
    IN  [abs |-> (path # <<>> /\ Head(path) = "/"), up |-> r.up, comps |-> r.comps]

StagingDir == Resolve(UPLOAD_FOLDER)
WorkingDir == Resolve(<<".">>)

\* the staging directory itself or a file below it
WithinStaging(path) ==
    LET p == Resolve(path)
    IN  /\ ~p.abs
        /\ p.up = 0
        /\ Len(p.comps) >= Len(StagingDir.comps)
        /\ SubSeq(p.comps, 1, Len(StagingDir.comps)) = StagingDir.comps


\* ------------------------------------------------------ mitigation rules
INTERNET == <<"I","N","T","E","R","N","E","T">>
ACCESS_FINE_LOCATION == <<"A","C","C","E","S","S","_","F","I","N","E","_","L","O","C","A","T","I","O","N">>
ACCESS_COARSE_LOCATION == <<"A","C","C","E","S","S","_","C","O","A","R","S","E","_","L","O","C","A","T","I","O","N">>
READ_CONTACTS == <<"R","E","A","D","_","C","O","N","T","A","C","T","S">>
READ_SMS == <<"R","E","A","D","_","S","M","S">>
SEND_SMS == <<"S","E","N","D","_","S","M","S">>
CAMERA == <<"C","A","M","E","R","A">>
RECORD_AUDIO == <<"R","E","C","O","R","D","_","A","U","D","I","O">>

AdviceHttps == "Ensure secure transmission with HTTPS."
AdviceLocation == "Alert users when accessing location data."
AdviceContacts == "Limit access to contacts to only necessary features."
AdviceSms == "Inform users if app accesses or sends SMS messages."
AdviceCamera == "Implement proper camera access controls and user notifications."
AdviceAudio == "Implement proper audio recording controls and user notifications."
AdviceDefault == "No specific mitigations needed based on permissions."

\* the six `if ... in perm` tests of the loop body, in the order of the code
Rules ==
    << [subs |-> {INTERNET}, advice |-> AdviceHttps],
       [subs |-> {ACCESS_FINE_LOCATION, ACCESS_COARSE_LOCATION}, advice |-> AdviceLocation],
       [subs |-> {READ_CONTACTS}, advice |-> AdviceContacts],
       [subs |-> {READ_SMS, SEND_SMS}, advice |-> AdviceSms],
       [subs |-> {CAMERA}, advice |-> AdviceCamera],
       [subs |-> {RECORD_AUDIO}, advice |-> AdviceAudio] >>

RuleMatches(rule, perm) == \E s \in rule.subs : Contains(perm, s)

\* what one pass of the loop body appends for perm
RECURSIVE AppendMatches(_, _)
AppendMatches(perm, i) ==
    IF i > Len(Rules) THEN <<>>
    ELSE (IF RuleMatches(Rules[i], perm) THEN <<Rules[i].advice>> ELSE <<>>)
         \o AppendMatches(perm, i + 1)

\* the list built by the loop over analysis["permissions"], then the default
Mitigations(perms) ==
    LET ms == Concat([i \in 1..Len(perms) |-> AppendMatches(perms[i], 1)])
    IN  IF ms = <<>> THEN <<AdviceDefault>> ELSE ms

Range(s) == {s[i] : i \in 1..Len(s)}

\* A response that returns the list as built, duplicates included.
DedupMissing(ms) == {ms}

\* list(set(mitigations)): the distinct advisories, in the order the hash
\* table yields them, which the code does not fix
Dedup(ms) ==
    LET S == Range(ms)
    IN  {o \in [1..Cardinality(S) -> S] : Range(o) = S}

\* ------------------------------------------------- inputs of the requests
P_INTERNET == <<"a","n","d","r","o","i","d",".","p","e","r","m","i","s","s","i","o","n",".","I","N","T","E","R","N","E","T">>
P_FINE == <<"a","n","d","r","o","i","d",".","p","e","r","m","i","s","s","i","o","n",".","A","C","C","E","S","S","_","F","I","N","E","_","L","O","C","A","T","I","O","N">>
P_COARSE == <<"a","n","d","r","o","i","d",".","p","e","r","m","i","s","s","i","o","n",".","A","C","C","E","S","S","_","C","O","A","R","S","E","_","L","O","C","A","T","I","O","N">>
P_CONTACTS == <<"a","n","d","r","o","i","d",".","p","e","r","m","i","s","s","i","o","n",".","R","E","A","D","_","C","O","N","T","A","C","T","S">>
P_READ_SMS == <<"a","n","d","r","o","i","d",".","p","e","r","m","i","s","s","i","o","n",".","R","E","A","D","_","S","M","S">>
P_SEND_SMS == <<"a","n","d","r","o","i","d",".","p","e","r","m","i","s","s","i","o","n",".","S","E","N","D","_","S","M","S">>
P_CAMERA == <<"a","n","d","r","o","i","d",".","p","e","r","m","i","s","s","i","o","n",".","C","A","M","E","R","A">>
P_AUDIO == <<"a","n","d","r","o","i","d",".","p","e","r","m","i","s","s","i","o","n",".","R","E","C","O","R","D","_","A","U","D","I","O">>
P_VIBRATE == <<"a","n","d","r","o","i","d",".","p","e","r","m","i","s","s","i","o","n",".","V","I","B","R","A","T","E">>
P_LOWER == <<"a","n","d","r","o","i","d",".","p","e","r","m","i","s","s","i","o","n",".","c","a","m","e","r","a">>
P_CUSTOM == <<"c","o","m",".","x",".","C","A","M","E","R","A","_","I","N","T","E","R","N","E","T">>

PermissionIds ==
    {P_INTERNET, P_FINE, P_COARSE, P_CONTACTS, P_READ_SMS, P_SEND_SMS,
     P_CAMERA, P_AUDIO, P_VIBRATE, P_LOWER, P_CUSTOM}

EXT_APK == <<".","a","p","k">>

N_SAMPLE == <<"a",".","a","p","k">>
N_TRAVERSAL == <<".",".","/","a",".","a","p","k">>
N_DOTS == <<".",".">>
N_TXT == <<"a",".","t","x","t">>
N_EMPTY == <<>>
N_SPACED == <<"U+00E9"," ","a",".","a","p","k">>
N_PASSWD == <<".",".","/",".",".","/","e","t","c","/","p","a","s","s","w","d">>
N_ABSOLUTE == <<"/","e","t","c","/","p","a","s","s","w","d">>
N_UMLAUT == <<"U+00FC","b","e","r",".","a","p","k">>
N_LIGATURE == <<"U+FB01","l","e","U+2003","b",".","a","p","k">>
N_LEADER == <<"U+2025","U+FF0F","U+2025","U+FF3C","a",".","a","p","k">>
N_ENYE == <<"U+00F1","U+2002","U+4E2D"," ","b",".","a","p","k">>

\* the names the concurrent clients of Spec declare for their uploads, and
\* the names they ask to analyze ("../a.apk" is staged as a.apk)
ClientNames == {N_TRAVERSAL, N_TXT, N_EMPTY}
ClientAnalyzeNames == {N_SAMPLE, N_DOTS}

\* the characters of the exhaustively enumerated names
Alphabet == {"a", ".", "/", "_", " ", "\n", "U+FF0F", "U+6587"}

Stems == SeqsUpTo(Alphabet, MaxStem)

\* every stem, every stem with the package extension, the spec's examples
\* and names whose non-ASCII characters have an ASCII part
AllNames ==
    Stems \cup {s \o EXT_APK : s \in Stems}
    \cup {N_PASSWD, N_ABSOLUTE, N_SPACED, N_UMLAUT, N_LIGATURE, N_LEADER, N_ENYE}

\* chunk_size of line 39, in bytes
ChunkSize == 8192

\* the length of a last chunk that is shorter than the writer's buffer
TailSize == 100

\* The buffer of the file object open(filepath, 'wb') returns: the block
\* size of the staging file system.
BufferSize == 4096

\* the unit in which the staging file system runs out of room
PageSize == 4096

\* The chunks file.stream.read(chunk_size) returns for a body of n chunks:
\* every chunk but the last is full, the last is full or short.
Bodies(n) ==
    IF n = 0 THEN {<<>>}
    ELSE {[i \in 1..n |-> IF i < n THEN ChunkSize ELSE last] :
            last \in {ChunkSize, TailSize}}

\* An upload request: whether the body exceeds MAX_CONTENT_LENGTH, whether
\* it holds the part 'apk_file', the part's declared name and the lengths of
\* the chunks of its content. The content of a part that fails a check is
\* never read, and neither is any part of an oversize body: they carry no
\* chunks. The oversize bodies hold a package or no part at all.
UploadRequests(names, bodies) ==
    {[kind |-> "upload", oversize |-> FALSE, part |-> "file", name |-> n, chunks |-> b] :
        n \in {m \in names : EndsWith(m, EXT_APK)}, b \in bodies}
    \cup {[kind |-> "upload", oversize |-> FALSE, part |-> "file", name |-> n, chunks |-> <<>>] :
        n \in {m \in names : ~EndsWith(m, EXT_APK)}}
    \cup {[kind |-> "upload", oversize |-> TRUE, part |-> "file", name |-> n, chunks |-> <<>>] :
        n \in {m \in names : EndsWith(m, EXT_APK)}}
    \cup {[kind |-> "upload", oversize |-> o, part |-> "none", name |-> <<>>, chunks |-> <<>>] :
        o \in BOOLEAN}

\* An analyze request: a body that is no JSON ("badjson"), JSON without a
\* 'filename' key ("nokey"), a 'filename' that is no string ("nonstring"),
\* or a 'filename' string.
AnalyzeRequests(names) ==
    {[kind |-> "analyze", oversize |-> FALSE, part |-> "string", name |-> n, chunks |-> <<>>] :
        n \in names}
    \cup {[kind |-> "analyze", oversize |-> FALSE, part |-> p, name |-> <<>>, chunks |-> <<>>] :
        p \in {"badjson", "nokey", "nonstring"}}

NoRequest == [kind |-> "none", oversize |-> FALSE, part |-> "none", name |-> <<>>, chunks |-> <<>>]

\* what the inspector returns for the requests of Spec and NameSpec
ClientPerms == {<<P_INTERNET, P_INTERNET>>}

\* the messages of the exceptions the inspector raises on a file
InspectorErrors == {"corrupt package"}

\* ------------------------------------------------------------------ state
VARIABLES
    pc,           \* where each request stands in its handler
    req,          \* the request each slot serves
    filename,     \* the handler's local `filename`
    filepath,     \* the handler's local `filepath`
    fd,           \* upload: the inode behind the open file object f
    written,      \* upload: chunks handed to f.write so far
    buffered,     \* upload: bytes held in the buffer of f, not yet in the file
    offset,       \* upload: position of f in the file, bytes it has put there
    rest,         \* upload: bytes of the chunk in f.write that are not placed yet
    analysis,     \* analyze: analysis["permissions"]
    mitigations,  \* analyze: the local list `mitigations`
    err,          \* str(e) of the exception on its way to the except clause
    resp,         \* the response each request ended with
    log,          \* the calls on a path each request has made: open, inspect, remove
    fs,           \* the files that exist: resolved path -> inode
    ino           \* the size of each inode, in bytes

vars == <<pc, req, filename, filepath, fd, written, buffered, offset, rest, analysis,
          mitigations, err, resp, log, fs, ino>>

\* the value of a local that has not been assigned
Unbound == <<"<unbound>">>

NoResponse ==
    [status |-> 0, error |-> "", filename |-> <<>>, permissions |-> <<>>,
     mitigations |-> <<>>, handled |-> TRUE]

\* jsonify({'error': msg}), status
ErrorResponse(status, msg) == [NoResponse EXCEPT !.status = status, !.error = msg]

\* an exception that leaves the view function: Flask answers it itself
Unhandled(msg) ==
    [NoResponse EXCEPT !.status = 500, !.error = msg, !.handled = FALSE]

\* the directories that exist: the working directory and ./uploads (line 13)
Dirs == {WorkingDir, StagingDir}

\* inode 0 is a file staged before the first request of the model
Inodes == 0..NumReq

\* os.path.exists
Exists(path) == Resolve(path) \in DOMAIN fs \/ Resolve(path) \in Dirs

IsFile(path) == Resolve(path) \in DOMAIN fs

\* whether an upload still has the file behind path open for writing
BeingWritten(path) ==
    /\ IsFile(path)
    /\ \E u \in Req :
        /\ pc[u] \in {"writing", "flush", "direct", "closing"}
        /\ fd[u] = fs[Resolve(path)]

\* no inode: what a path that names no file stands for
NoInode == -1

\* One file system call of a request that names a path: the path, whether
\* the call ended without an exception, whether the path named a file when
\* it was made, which file (inode) that was, and whether an upload was
\* still writing that file.
Call(op, path, ok) ==
    [op |-> op, path |-> Resolve(path), ok |-> ok, file |-> IsFile(path),
     inode |-> IF IsFile(path) THEN fs[Resolve(path)] ELSE NoInode,
     partial |-> BeingWritten(path)]

\* the staging directory is empty and no request has arrived
Init ==
    /\ pc = [r \in Req |-> "idle"]
    /\ req = [r \in Req |-> NoRequest]
    /\ filename = [r \in Req |-> Unbound]
    /\ filepath = [r \in Req |-> Unbound]
    /\ fd = [r \in Req |-> 0]
    /\ written = [r \in Req |-> 0]
    /\ buffered = [r \in Req |-> 0]
    /\ offset = [r \in Req |-> 0]
    /\ rest = [r \in Req |-> 0]
    /\ analysis = [r \in Req |-> <<>>]
    /\ mitigations = [r \in Req |-> <<>>]
    /\ err = [r \in Req |-> ""]
    /\ resp = [r \in Req |-> NoResponse]
    /\ log = [r \in Req |-> <<>>]
    /\ fs = <<>>
    /\ ino = [i \in Inodes |-> 0]

\* --------------------------------------------------------------- upload
\* The outcomes of open(filepath, 'wb'): a directory cannot be opened, and
\* any open can fail in the file system.
OpenOutcomes(path) == IF Resolve(path) \in Dirs THEN {FALSE} ELSE BOOLEAN

\* lines 24-33 and 48-49: the response that rejects request q, NoResponse if
\* q passes. Reading request.files parses the body, which raises
\* RequestEntityTooLarge (an Exception) beyond MAX_CONTENT_LENGTH: the
\* handler's except clause answers it with 500 and the exception's text.
Rejection(q) ==
    IF q.oversize
    THEN ErrorResponse(500, "413 Request Entity Too Large")
    ELSE IF q.part = "none"
    THEN ErrorResponse(400, "No file provided")
    ELSE IF q.name = <<>>
    THEN ErrorResponse(400, "No file selected")
    ELSE IF ~EndsWith(q.name, EXT_APK)
    THEN ErrorResponse(400, "Invalid file type. Please upload an APK file")
    ELSE NoResponse

\* lines 24-40 and 48-49: the checks, the sanitised path, open(filepath, 'wb')
UploadBegin(r, requests) ==
    /\ pc[r] = "idle"
    /\ \E q \in requests :
        /\ req' = [req EXCEPT ![r] = q]
        /\ IF Rejection(q) # NoResponse
           THEN /\ resp' = [resp EXCEPT ![r] = Rejection(q)]
                /\ pc' = [pc EXCEPT ![r] = "done"]
                /\ UNCHANGED <<filename, filepath, fd, log, fs, ino>>
           ELSE LET name == secure_filename(q.name)
                    path == PathJoin(UPLOAD_FOLDER, name)
                IN  /\ filename' = [filename EXCEPT ![r] = name]
                    /\ filepath' = [filepath EXCEPT ![r] = path]
                    /\ \E ok \in OpenOutcomes(path) :
                        /\ log' = [log EXCEPT ![r] = Append(@, Call("open", path, ok))]
                        /\ IF ok
                           THEN /\ fs' = IF IsFile(path) THEN fs
                                         ELSE (Resolve(path) :> r) @@ fs
                                /\ fd' = [fd EXCEPT ![r] =
                                            IF IsFile(path) THEN fs[Resolve(path)] ELSE r]
                                /\ ino' = [ino EXCEPT ![fd'[r]] = 0]
                                /\ pc' = [pc EXCEPT ![r] = "writing"]
                                /\ UNCHANGED resp
                           ELSE /\ resp' = [resp EXCEPT ![r] =
                                            ErrorResponse(500, "cannot open file")]
                                /\ pc' = [pc EXCEPT ![r] = "done"]
                                /\ UNCHANGED <<fd, fs, ino>>
    /\ UNCHANGED <<written, buffered, offset, rest, analysis, mitigations, err>>

\* f.write(chunk) copies a chunk of n bytes into the buffer of f, which
\* holds pos bytes, if it fits into the rest of the buffer.
Fits(pos, n) == n <= BufferSize - pos

\* lines 41-45: one non-empty chunk is read and handed to f.write. A chunk
\* that fits is copied into the buffer and f.write returns; the file is not
\* touched. Otherwise f.write has the whole chunk still to place: it first
\* empties the buffer into the file ("flush") or, the buffer being empty,
\* writes the chunk to the file itself ("direct").
UploadWrite(r) ==
    /\ pc[r] = "writing"
    /\ written[r] < Len(req[r].chunks)
    /\ LET n == req[r].chunks[written[r] + 1]
       IN  IF Fits(buffered[r], n)
           THEN /\ buffered' = [buffered EXCEPT ![r] = @ + n]
                /\ written' = [written EXCEPT ![r] = @ + 1]
                /\ UNCHANGED <<pc, rest>>
           ELSE /\ rest' = [rest EXCEPT ![r] = n]
                /\ pc' = [pc EXCEPT ![r] = IF buffered[r] > 0 THEN "flush" ELSE "direct"]
                /\ UNCHANGED <<buffered, written>>
    /\ UNCHANGED <<req, filename, filepath, fd, offset, analysis, mitigations, err,
                   resp, log, fs, ino>>

\* What a write of n bytes to the file can put there short of all of them:
\* the whole pages the file system still had room for.
PartialSizes(n) == {k * PageSize : k \in 1..((n - 1) \div PageSize)}

\* The outcomes of one write(2) of m bytes: all of them or a part of them
\* reach the file (n bytes), or the call fails and none does.
RawOutcomes(m) ==
    {[n |-> k, ok |-> TRUE] : k \in PartialSizes(m) \cup {m}}
    \cup {[n |-> 0, ok |-> FALSE]}

\* the sizes after n bytes are written to inode i at position at
Grown(i, at, n) ==
    IF n = 0 THEN ino
    ELSE [ino EXCEPT ![i] = IF @ > at + n THEN @ ELSE at + n]

\* the part of the upload that the next write(2) of r belongs to: the flush
\* or the direct write of an f.write (line 45), or the flush of the buffer
\* when f is closed at the exit of the with-block (line 40)
Phase(r) == IF pc[r] \in {"flush", "direct"} THEN pc[r] ELSE "closing"

\* the file object f and the state of the loop end with the handler
Closed(r) ==
    /\ fd' = [fd EXCEPT ![r] = 0]
    /\ written' = [written EXCEPT ![r] = 0]
    /\ buffered' = [buffered EXCEPT ![r] = 0]
    /\ offset' = [offset EXCEPT ![r] = 0]
    /\ rest' = [rest EXCEPT ![r] = 0]

\* lines 40 and 45: one write(2) on the file behind f.
\* In f.write the buffered bytes are written until none is left; then, while
\* more of the chunk than a buffer holds is left, the chunk is written; what
\* is left of it at most a buffer long is copied into the buffer and f.write
\* returns. A write(2) that fails raises out of f.write: the rest of the
\* chunk is lost, the bytes in the buffer stay there, and the with-block is
\* left. Closing f writes the buffered bytes until none is left; a write(2)
\* that fails raises out of the with-block, and the except clause answers
\* 500 with its text.
UploadRaw(r) ==
    /\ \/ pc[r] \in {"flush", "direct"}
       \/ pc[r] = "closing" /\ buffered[r] > 0
       \/ pc[r] = "writing" /\ written[r] = Len(req[r].chunks) /\ buffered[r] > 0
    /\ \E o \in RawOutcomes(IF Phase(r) = "direct" THEN rest[r] ELSE buffered[r]) :
        /\ ino' = Grown(fd[r], offset[r], o.n)
        /\ IF ~o.ok
           THEN /\ err' = [err EXCEPT ![r] = "cannot write file"]
                /\ IF Phase(r) = "closing"
                   THEN /\ resp' = [resp EXCEPT ![r] = ErrorResponse(500, "cannot write file")]
                        /\ pc' = [pc EXCEPT ![r] = "done"]
                        /\ Closed(r)
                   ELSE /\ rest' = [rest EXCEPT ![r] = 0]
                        /\ pc' = [pc EXCEPT ![r] = "closing"]
                        /\ UNCHANGED <<resp, fd, buffered, written, offset>>
           ELSE LET left == (IF Phase(r) = "direct" THEN rest[r] ELSE buffered[r]) - o.n
                    \* f.write goes on with the chunk once the buffer is empty
                    chunk == IF Phase(r) = "direct" THEN left ELSE rest[r]
                IN  /\ offset' = [offset EXCEPT ![r] = @ + o.n]
                    /\ IF Phase(r) = "closing"
                       THEN /\ buffered' = [buffered EXCEPT ![r] = left]
                            /\ pc' = [pc EXCEPT ![r] = "closing"]
                            /\ UNCHANGED <<rest, written>>
                       ELSE IF Phase(r) = "flush" /\ left > 0
                       THEN /\ buffered' = [buffered EXCEPT ![r] = left]
                            /\ UNCHANGED <<pc, rest, written>>
                       ELSE IF chunk > BufferSize
                       THEN /\ buffered' = [buffered EXCEPT ![r] = 0]
                            /\ rest' = [rest EXCEPT ![r] = chunk]
                            /\ pc' = [pc EXCEPT ![r] = "direct"]
                            /\ UNCHANGED written
                       ELSE /\ buffered' = [buffered EXCEPT ![r] = chunk]
                            /\ rest' = [rest EXCEPT ![r] = 0]
                            /\ written' = [written EXCEPT ![r] = @ + 1]
                            /\ pc' = [pc EXCEPT ![r] = "writing"]
                    /\ UNCHANGED <<err, resp, fd>>
    /\ UNCHANGED <<req, filename, filepath, analysis, mitigations, log, fs>>

\* lines 40-49: the with-block is left, by the empty chunk that ends the
\* loop or by an exception of f.write, and f is closed with nothing left in
\* its buffer. The sanitised name is returned if nothing was raised, 500
\* with the exception's text otherwise.
UploadFinish(r) ==
    /\ \/ pc[r] = "writing" /\ written[r] = Len(req[r].chunks)
       \/ pc[r] = "closing"
    /\ buffered[r] = 0
    /\ resp' = [resp EXCEPT ![r] =
                    IF err[r] = ""
                    THEN [NoResponse EXCEPT !.status = 200, !.filename = filename[r]]
                    ELSE ErrorResponse(500, err[r])]
    /\ pc' = [pc EXCEPT ![r] = "done"]
    /\ Closed(r)
    /\ UNCHANGED <<req, filename, filepath, analysis, mitigations, err, log, fs, ino>>

\* -------------------------------------------------------------- analyze
\* lines 53-62 and 105-111: the body is parsed, the name sanitised, the
\* file looked up. An exception raised before line 59 reaches the except
\* clause with filepath unassigned: line 106 raises UnboundLocalError,
\* which leaves the handler.
AnalyzeBegin(r, requests) ==
    /\ pc[r] = "idle"
    /\ \E q \in requests :
        /\ req' = [req EXCEPT ![r] = q]
        /\ IF q.part \in {"badjson", "nonstring"}
           THEN /\ resp' = [resp EXCEPT ![r] = Unhandled("UnboundLocalError: filepath")]
                /\ pc' = [pc EXCEPT ![r] = "done"]
                /\ UNCHANGED <<filename, filepath>>
           ELSE IF q.part = "nokey"
           THEN /\ resp' = [resp EXCEPT ![r] = ErrorResponse(400, "No filename provided")]
                /\ pc' = [pc EXCEPT ![r] = "done"]
                /\ UNCHANGED <<filename, filepath>>
           ELSE LET name == secure_filename(q.name)
                    path == PathJoin(UPLOAD_FOLDER, name)
                IN  /\ filename' = [filename EXCEPT ![r] = name]
                    /\ filepath' = [filepath EXCEPT ![r] = path]
                    /\ IF Exists(path)
                       THEN /\ pc' = [pc EXCEPT ![r] = "inspect"]
                            /\ UNCHANGED resp
                       ELSE /\ resp' = [resp EXCEPT ![r] = ErrorResponse(404, "File not found")]
                            /\ pc' = [pc EXCEPT ![r] = "done"]
    /\ UNCHANGED <<fd, written, buffered, offset, rest, analysis, mitigations, err, log,
                   fs, ino>>

\* What AnalyzeAPK(filepath) and the getters of lines 65-72 can do: on a
\* file, return a permission list or raise; on a directory or a missing
\* path, raise.
InspectorOutcomes(path, perms) ==
    IF IsFile(path)
    THEN {[ok |-> TRUE, perms |-> p, msg |-> ""] : p \in perms}
         \cup {[ok |-> FALSE, perms |-> <<>>, msg |-> m] : m \in InspectorErrors}
    ELSE IF Resolve(path) \in Dirs
    THEN {[ok |-> FALSE, perms |-> <<>>, msg |-> "Is a directory"]}
    ELSE {[ok |-> FALSE, perms |-> <<>>, msg |-> "No such file or directory"]}

\* lines 64-91: the inspector runs on filepath, the mitigation list is built
Inspect(r, perms) ==
    /\ pc[r] = "inspect"
    /\ \E out \in InspectorOutcomes(filepath[r], perms) :
        /\ log' = [log EXCEPT ![r] = Append(@, Call("inspect", filepath[r], out.ok))]
        /\ IF out.ok
           THEN /\ analysis' = [analysis EXCEPT ![r] = out.perms]
                /\ mitigations' = [mitigations EXCEPT ![r] = Mitigations(out.perms)]
                /\ pc' = [pc EXCEPT ![r] = "cleanup"]
                /\ UNCHANGED err
           ELSE /\ err' = [err EXCEPT ![r] = out.msg]
                /\ pc' = [pc EXCEPT ![r] = "except"]
                /\ UNCHANGED <<analysis, mitigations>>
    /\ UNCHANGED <<req, filename, filepath, fd, written, buffered, offset, rest, resp, fs,
                   ino>>

\* The outcomes of os.remove(path): only a file can be unlinked, and any
\* unlink can fail in the file system.
RemoveOutcomes(path) == IF IsFile(path) THEN BOOLEAN ELSE {FALSE}

\* An os.remove that reports success and unlinks nothing.
RemovedNothing(path, ok) == fs

\* the files after a call of os.remove(path) that ended ok
Removed(path, ok) ==
    IF ok THEN [p \in DOMAIN fs \ {Resolve(path)} |-> fs[p]] ELSE fs

\* What is raised between os.remove and the return of lines 99-103, "" if
\* nothing is: after a failed os.remove the print of line 97 can fail on
\* the standard output, and jsonify can fail to build the response.
ReportOutcomes(ok) ==
    {"", "cannot encode response"}
    \cup (IF ok THEN {} ELSE {"cannot write to standard output"})

\* lines 93-103: os.remove in its own try, which passes a failure to print;
\* then the 200 response. print and jsonify stand in the outer try: what
\* they raise reaches the except clause of line 105.
Cleanup(r) ==
    /\ pc[r] = "cleanup"
    /\ \E ok \in RemoveOutcomes(filepath[r]) :
        /\ log' = [log EXCEPT ![r] = Append(@, Call("remove", filepath[r], ok))]
        /\ fs' = Removed(filepath[r], ok)
        /\ \E raised \in ReportOutcomes(ok) :
            IF raised = ""
            THEN /\ \E ms \in Dedup(mitigations[r]) :
                        resp' = [resp EXCEPT ![r] =
                            [NoResponse EXCEPT !.status = 200, !.permissions = analysis[r],
                                               !.mitigations = ms]]
                 /\ pc' = [pc EXCEPT ![r] = "done"]
                 /\ UNCHANGED err
            ELSE /\ err' = [err EXCEPT ![r] = raised]
                 /\ pc' = [pc EXCEPT ![r] = "except"]
                 /\ UNCHANGED resp
    /\ UNCHANGED <<req, filename, filepath, fd, written, buffered, offset, rest, analysis,
                   mitigations, ino>>

\* An except clause that answers without looking for the file.
ExceptNoCleanup(r) ==
    /\ pc[r] = "except"
    /\ resp' = [resp EXCEPT ![r] = ErrorResponse(500, err[r])]
    /\ pc' = [pc EXCEPT ![r] = "done"]
    /\ UNCHANGED <<req, filename, filepath, fd, written, buffered, offset, rest, analysis,
                   mitigations, err, ino, log, fs>>

\* lines 105-106 and 111: the except clause, entered from the inspector or
\* from the report of lines 97-103, looks for the file; if it is not there,
\* it answers 500 with the exception's message
ExceptCheck(r) ==
    /\ pc[r] = "except"
    /\ IF Exists(filepath[r])
       THEN /\ pc' = [pc EXCEPT ![r] = "except_remove"]
            /\ UNCHANGED resp
       ELSE /\ resp' = [resp EXCEPT ![r] = ErrorResponse(500, err[r])]
            /\ pc' = [pc EXCEPT ![r] = "done"]
    /\ UNCHANGED <<req, filename, filepath, fd, written, buffered, offset, rest, analysis,
                   mitigations, err, ino, log, fs>>

\* lines 107-111: os.remove on the path that existed at line 106, its
\* failure passed over, then 500 with the exception's message
ExceptRemove(r) ==
    /\ pc[r] = "except_remove"
    /\ \E ok \in RemoveOutcomes(filepath[r]) :
        /\ log' = [log EXCEPT ![r] = Append(@, Call("remove", filepath[r], ok))]
        /\ fs' = Removed(filepath[r], ok)
    /\ resp' = [resp EXCEPT ![r] = ErrorResponse(500, err[r])]
    /\ pc' = [pc EXCEPT ![r] = "done"]
    /\ UNCHANGED <<req, filename, filepath, fd, written, buffered, offset, rest, analysis,
                   mitigations, err, ino>>

\* ------------------------------------------------------- specifications
\* the body of the uploads of Spec: MaxChunks full chunks
ClientBodies == {b \in Bodies(MaxChunks) : b[Len(b)] = ChunkSize}

\* the body of the uploads of NameSpec: one short chunk
TailBodies == {b \in Bodies(1) : b[Len(b)] = TailSize}

\* The service starts over a staging directory that still holds a.apk from
\* an earlier run (line 13 leaves an existing directory as it is).
StagedPath == Resolve(PathJoin(UPLOAD_FOLDER, N_SAMPLE))

InitStaged ==
    /\ pc = [r \in Req |-> "idle"]
    /\ req = [r \in Req |-> NoRequest]
    /\ filename = [r \in Req |-> Unbound]
    /\ filepath = [r \in Req |-> Unbound]
    /\ fd = [r \in Req |-> 0]
    /\ written = [r \in Req |-> 0]
    /\ buffered = [r \in Req |-> 0]
    /\ offset = [r \in Req |-> 0]
    /\ rest = [r \in Req |-> 0]
    /\ analysis = [r \in Req |-> <<>>]
    /\ mitigations = [r \in Req |-> <<>>]
    /\ err = [r \in Req |-> ""]
    /\ resp = [r \in Req |-> NoResponse]
    /\ log = [r \in Req |-> <<>>]
    /\ fs = (StagedPath :> 0)
    /\ ino = [i \in Inodes |-> IF i = 0 THEN ChunkSize ELSE 0]

\* Spec: NumConc requests served concurrently, each step of a handler that
\* touches the file system a step of its own; the staging directory is
\* empty or holds a.apk when the first request arrives.
\* the requests take the slots in the order in which they arrive
Arrives(r) == IF r = 1 THEN TRUE ELSE pc[r - 1] # "idle"

Next ==
    \E r \in 1..NumConc :
        \/ Arrives(r) /\ UploadBegin(r, UploadRequests(ClientNames, ClientBodies))
        \/ UploadWrite(r)
        \/ UploadRaw(r)
        \/ UploadFinish(r)
        \/ Arrives(r) /\ AnalyzeBegin(r, AnalyzeRequests(ClientAnalyzeNames))
        \/ Inspect(r, ClientPerms)
        \/ Cleanup(r)
        \/ ExceptCheck(r)
        \/ ExceptRemove(r)

Spec == (Init \/ InitStaged) /\ [][Next]_vars

\* NameSpec: one request with any name of AllNames; after an upload that
\* returned a name, an analyze request with that name; then, after a 200, an
\* analyze request with that name again.
FollowUpNames ==
    IF req[1].kind = "upload" /\ resp[1].status = 200 THEN {resp[1].filename} ELSE {}

NextNames ==
    \/ UploadBegin(1, UploadRequests(AllNames, TailBodies))
    \/ AnalyzeBegin(1, AnalyzeRequests(AllNames))
    \/ pc[1] = "done" /\ FollowUpNames # {}
            /\ AnalyzeBegin(2, AnalyzeRequests(FollowUpNames))
    \/ pc[2] = "done" /\ resp[2].status = 200
            /\ AnalyzeBegin(3, AnalyzeRequests({req[2].name}))
    \/ \E r \in {1, 2, 3} :
        \/ UploadWrite(r)
        \/ UploadRaw(r)
        \/ UploadFinish(r)
        \/ Inspect(r, ClientPerms)
        \/ Cleanup(r)
        \/ ExceptCheck(r)
        \/ ExceptRemove(r)

NameSpec == Init /\ [][NextNames]_vars

\* RulesSpec: a.apk is staged; one analyze request, for which the inspector
\* returns any list of at most MaxPerms permission identifiers.
AllPermLists == SeqsUpTo(PermissionIds, MaxPerms)

NextRules ==
    \/ AnalyzeBegin(1, AnalyzeRequests({N_SAMPLE}))
    \/ Inspect(1, AllPermLists)
    \/ Cleanup(1)
    \/ ExceptCheck(1)
    \/ ExceptRemove(1)

RulesSpec == InitStaged /\ [][NextRules]_vars

\* ----------------------------------------------------------- properties
IsUpload(r) == req[r].kind = "upload"
IsAnalyze(r) == req[r].kind = "analyze"

\* the positions of the os.remove calls in the log of r
Removes(r) == {i \in 1..Len(log[r]) : log[r][i].op = "remove"}

\* a resolved path that is the staging directory or lies below it
ResolvedWithin(p) ==
    /\ ~p.abs
    /\ p.up = 0
    /\ Len(p.comps) >= Len(StagingDir.comps)
    /\ SubSeq(p.comps, 1, Len(StagingDir.comps)) = StagingDir.comps

\* request r has returned and no later request has begun
Returned(r) == pc[r] = "done" /\ \A u \in Req : u > r => pc[u] = "idle"

\* analyze request r passed the existence check on a staged file: the
\* inspector was called on a path that named a file
AnalyzedStagedFile(r) ==
    /\ IsAnalyze(r)
    /\ log[r] # <<>>
    /\ log[r][1].op = "inspect"
    /\ log[r][1].file

\* analyze request r returns in this step
Returns(r) == pc[r] # "done" /\ pc'[r] = "done"

\* The staged file of analyze request r, the file its name resolved to and
\* the inspector was handed, is still in the staging directory. A file that
\* an upload stages under the same name after this one is removed is
\* another file.
StagedFileExists(r) == \E p \in DOMAIN fs : fs[p] = log[r][1].inode

\* the last os.remove of request r failed
LastRemoveFailed(r) ==
    /\ Removes(r) # {}
    /\ \A i \in Removes(r) : (\A j \in Removes(r) : j <= i) => ~log[r][i].ok

\* C1 as stated: when an analyze call on an existing staged file returns,
\* it returns 200 or 500 and the staged file no longer exists.
C1_StagedFileGone ==
    [][\A r \in Req :
        (Returns(r) /\ AnalyzedStagedFile(r)') =>
            /\ resp'[r].status \in {200, 500}
            /\ ~StagedFileExists(r)']_vars

\* C1 as amended: when such a call returns, it returns 200 or 500 and the
\* staged file no longer exists, unless the call's last attempt to delete
\* it failed.
C1_StagedFileGoneUnlessRemoveFails ==
    [][\A r \in Req :
        (Returns(r) /\ AnalyzedStagedFile(r)') =>
            /\ resp'[r].status \in {200, 500}
            /\ ~StagedFileExists(r)' \/ LastRemoveFailed(r)']_vars

\* the inspector raised on a staged file, the call deleted the file and
\* answered 500 with the inspector's message, and the file is gone
C1_Witness ==
    \E r \in Req :
        /\ pc[r] = "done"
        /\ AnalyzedStagedFile(r)
        /\ resp[r] = ErrorResponse(500, "corrupt package")
        /\ \E i \in Removes(r) : log[r][i].ok
        /\ ~StagedFileExists(r)
        /\ ~IsFile(filepath[r])

\* C2: every path a handler builds from a client-supplied name, every path
\* it opens for writing, hands to the inspector or removes, and every file
\* that exists, is the staging directory or lies below it.
C2_PathsWithinStaging ==
    /\ \A r \in Req : filepath[r] # Unbound => WithinStaging(filepath[r])
    /\ \A r \in Req : \A i \in 1..Len(log[r]) : ResolvedWithin(log[r][i].path)
    /\ \A p \in DOMAIN fs : ResolvedWithin(p)

\* "../.apk" was uploaded and staged as ./uploads/apk, then analyzed by the
\* returned name and removed
C2_Witness ==
    /\ IsUpload(1)
    /\ req[1].name = <<".", ".", "/">> \o EXT_APK
    /\ resp[1].status = 200
    /\ resp[1].filename = <<"a", "p", "k">>
    /\ IsAnalyze(2)
    /\ req[2].name = resp[1].filename
    /\ pc[2] = "done"
    /\ \E i \in Removes(2) : log[2][i].ok

\* the answer of upload request r is the validation error msg, and r has
\* touched no file
RejectedWith(r, msg) == resp[r] = ErrorResponse(400, msg) /\ log[r] = <<>>

\* C3 as stated: upload reports the first failing check of (1) file part
\* present, (2) name non-empty, (3) name ends with ".apk" as a 400
\* validation error and leaves the staging directory alone.
C3_ChecksInOrder ==
    \A r \in Req :
        (IsUpload(r) /\ pc[r] = "done") =>
            /\ req[r].part = "none" => RejectedWith(r, "No file provided")
            /\ (req[r].part = "file" /\ req[r].name = <<>>) =>
                    RejectedWith(r, "No file selected")
            /\ (req[r].part = "file" /\ req[r].name # <<>> /\ ~EndsWith(req[r].name, EXT_APK)) =>
                    RejectedWith(r, "Invalid file type. Please upload an APK file")

\* C4 as stated: an analyze request whose sanitised name names no staged
\* file when it is looked up ends there with 404 "File not found": the
\* inspector is not called and nothing is changed.
C4_NotFoundWithoutStagedFile ==
    [][\A r \in Req :
        ( /\ pc[r] = "idle"
          /\ pc'[r] # "idle"
          /\ req'[r].kind = "analyze"
          /\ req'[r].part = "string"
          /\ ~IsFile(PathJoin(UPLOAD_FOLDER, secure_filename(req'[r].name))) )
        => ( /\ pc'[r] = "done"
             /\ resp'[r] = ErrorResponse(404, "File not found")
             /\ log'[r] = <<>>
             /\ fs' = fs )]_vars

\* the advisories of the rules of the table whose substring occurs in a
\* permission of perms
Occurs(perms, sub) == \E i \in 1..Len(perms) : Contains(perms[i], sub)

ExpectedAdvice(perms) ==
    {a \in {AdviceHttps, AdviceLocation, AdviceContacts, AdviceSms, AdviceCamera, AdviceAudio} :
        \/ a = AdviceHttps /\ Occurs(perms, INTERNET)
        \/ a = AdviceLocation /\ (Occurs(perms, ACCESS_FINE_LOCATION) \/ Occurs(perms, ACCESS_COARSE_LOCATION))
        \/ a = AdviceContacts /\ Occurs(perms, READ_CONTACTS)
        \/ a = AdviceSms /\ (Occurs(perms, READ_SMS) \/ Occurs(perms, SEND_SMS))
        \/ a = AdviceCamera /\ Occurs(perms, CAMERA)
        \/ a = AdviceAudio /\ Occurs(perms, RECORD_AUDIO)}

\* C5: the mitigation list of a 200 analyze response holds no advisory
\* twice and is, as a set, the advisories of the matching rules, or the
\* default advisory alone when no rule matches; for CAMERA, READ_SMS,
\* INTERNET it is the camera, SMS and HTTPS advisories, three entries.
C5_MitigationsAreTheMatchingAdvisories ==
    \A r \in Req :
        (IsAnalyze(r) /\ pc[r] = "done" /\ resp[r].status = 200) =>
            LET ms == resp[r].mitigations
                perms == resp[r].permissions
                expected == ExpectedAdvice(perms)
            IN  /\ Cardinality(Range(ms)) = Len(ms)
                /\ Range(ms) = IF expected = {} THEN {AdviceDefault} ELSE expected
                /\ perms = <<>> => ms = <<AdviceDefault>>
                /\ Range(perms) = {P_CAMERA, P_READ_SMS, P_INTERNET} =>
                        /\ Len(ms) = 3
                        /\ Range(ms) = {AdviceCamera, AdviceSms, AdviceHttps}

\* the inspector returned INTERNET, READ_SMS, CAMERA and the response lists
\* the three advisories, in an order that is not the order of the rules
C5_Witness ==
    \E r \in Req :
        /\ IsAnalyze(r)
        /\ resp[r].status = 200
        /\ resp[r].permissions = <<P_INTERNET, P_READ_SMS, P_CAMERA>>
        /\ resp[r].mitigations = <<AdviceCamera, AdviceSms, AdviceHttps>>

\* C6 as stated: every analyze request ends inside the handler with a JSON
\* response of status 200, 400, 404 or 500; no exception leaves the handler,
\* also when it is raised before filepath is assigned.
C6_NoExceptionLeavesAnalyze ==
    \A r \in Req :
        (IsAnalyze(r) /\ pc[r] = "done") =>
            /\ resp[r].handled
            /\ resp[r].status \in {200, 400, 404, 500}

\* C7 as stated: an upload beyond the size ceiling is answered with 400 or
\* 413, and no file is created for it.
C7_PayloadTooLarge ==
    \A r \in Req :
        (IsUpload(r) /\ pc[r] = "done" /\ req[r].oversize) =>
            /\ resp[r].status \in {400, 413}
            /\ log[r] = <<>>

\* upload r returned a name, and the next request analyzes that name
RoundTrip(r) ==
    /\ r + 1 \in Req
    /\ IsUpload(r)
    /\ resp[r].status = 200
    /\ IsAnalyze(r + 1)
    /\ req[r + 1].part = "string"
    /\ req[r + 1].name = resp[r].filename

\* the request after the round trip of r analyzes the same name again
SecondAnalyze(r) ==
    /\ r + 2 \in Req
    /\ IsAnalyze(r + 2)
    /\ req[r + 2].part = "string"
    /\ req[r + 2].name = resp[r].filename
    /\ pc[r + 2] = "done"

\* C8 as stated: the name upload returns, passed to the next analyze, gives
\* the path upload wrote and is not answered NotFound; after a 200 the
\* staged file is gone, and a second analyze of the name is answered 404.
C8_RoundTrip ==
    \A r \in Req :
        RoundTrip(r) =>
            /\ filepath[r + 1] = filepath[r]
            /\ secure_filename(resp[r].filename) = resp[r].filename
            /\ pc[r + 1] = "done" => resp[r + 1].status # 404
            /\ (Returned(r + 1) /\ resp[r + 1].status = 200) => ~IsFile(filepath[r])
            /\ (resp[r + 1].status = 200 /\ SecondAnalyze(r)) =>
                    resp[r + 2] = ErrorResponse(404, "File not found")

\* the deletion attempt of analyze request r did not fail
RemoveSucceeded(r) == \A i \in Removes(r) : log[r][i].ok

\* C8 as amended: the same, where "after a 200 the file is gone and a second
\* analyze is answered 404" is claimed only if the deletion attempt of the
\* first analyze did not fail; if it failed, the file is still there and the
\* second analyze is not answered 404.
C8_RoundTripUnlessRemoveFails ==
    \A r \in Req :
        RoundTrip(r) =>
            /\ filepath[r + 1] = filepath[r]
            /\ secure_filename(resp[r].filename) = resp[r].filename
            /\ pc[r + 1] = "done" => resp[r + 1].status # 404
            /\ (Returned(r + 1) /\ resp[r + 1].status = 200) =>
                    (RemoveSucceeded(r + 1) <=> ~IsFile(filepath[r]))
            /\ (resp[r + 1].status = 200 /\ SecondAnalyze(r)) =>
                    (RemoveSucceeded(r + 1) <=>
                        resp[r + 2] = ErrorResponse(404, "File not found"))

\* "a/a.apk" was uploaded as a_a.apk, analyzed by the returned name with
\* 200, and analyzed again with 404
C8_Witness ==
    /\ IsUpload(1)
    /\ req[1].name = <<"a", "/", "a">> \o EXT_APK
    /\ resp[1].filename = <<"a", "_", "a">> \o EXT_APK
    /\ RoundTrip(1)
    /\ resp[2].status = 200
    /\ SecondAnalyze(1)
    /\ resp[3] = ErrorResponse(404, "File not found")

\* C9 as stated: under any interleaving of requests on one sanitised name,
\* the inspector is never handed a file that an upload is still writing, and
\* every such request ends with a JSON response.
C9_NoPartialFileVisible ==
    \A r \in Req :
        /\ \A i \in 1..Len(log[r]) : log[r][i].op = "inspect" => ~log[r][i].partial
        /\ (pc[r] = "done" /\ filepath[r] # Unbound) => resp[r].handled

\* the inspector's result for request r, as the handler returns it
PrimaryOutcome(r) ==
    IF log[r][1].ok
    THEN /\ resp[r].status = 200
         /\ resp[r].handled
         /\ resp[r].error = ""
         /\ resp[r].permissions = analysis[r]
         /\ Range(resp[r].mitigations) = Range(mitigations[r])
    ELSE /\ resp[r].status = 500
         /\ resp[r].handled
         /\ resp[r].error \in InspectorErrors
                \cup {"Is a directory", "No such file or directory"}

\* C10 as stated: an analyze call that passed the existence check makes at
\* most one attempt to delete the staged file, and if that attempt fails the
\* call still answers by the inspector's outcome: 200 with the analysis if
\* the inspector returned, 500 with the inspector's message if it raised.
C10_OneSwallowedRemove ==
    \A r \in Req :
        (IsAnalyze(r) /\ log[r] # <<>>) =>
            /\ Cardinality(Removes(r)) <= 1
            /\ (pc[r] = "done" /\ \E i \in Removes(r) : ~log[r][i].ok) => PrimaryOutcome(r)
====
